---- MODULE Spec2Model ----
(***************************************************************************)
(* Verification model of sql_agent_langchain.                              *)
(*                                                                         *)
(*  - SQL safety gate: LoggingSQLDatabase.run / QueryEngine.ask            *)
(*    (core/db/query_engine.py) around verify_sql (core/db/verify_sql.py,  *)
(*    whose text is not part of the sources: its rules are those of        *)
(*    section 4.4 of the specification).                                   *)
(*  - Embedding index: DBEmbedder (core/db/embedder.py) and the CDC worker *)
(*    (core/worker/listen_and_refresh.py) over the relation                *)
(*    schema_embeddings.                                                   *)
(*                                                                         *)
(* A SQL string is a sequence of lexemes (whitespace separates lexemes and *)
(* is not represented).                                                    *)
(***************************************************************************)
EXTENDS Integers, Sequences, FiniteSets, TLC

VARIABLES
    \* ---- SQL safety gate (LoggingSQLDatabase / QueryEngine.ask) ----
    command,      \* the SQL string the agent hands to db.run
    probe,        \* cost probe seen by the last run: "off", "low", "high"
    last_query,   \* LoggingSQLDatabase.last_query
    last_result,  \* LoggingSQLDatabase.last_result
    executed,     \* statements handed to SQLDatabase._execute, in order
    gate_out,     \* how the last db.run ended
    runs,         \* number of db.run calls so far
    ask_out,      \* outcome of QueryEngine.ask: [status, sql]
    \* ---- tenant database ----
    catalog,      \* user tables of the tenant database: table -> column count (0: no such table)
    ddl_count,    \* DDL statements run on the tenant database so far
    table_exists, \* the relation schema_embeddings exists
    rows,         \* the rows of schema_embeddings
    \* ---- CDC worker (listen_and_refresh.py) ----
    queue,        \* asyncio.Queue of notification payloads
    w_pc,         \* position of handle_notification: "idle", "metadata", "apply"
    w_event,      \* the payload being handled
    w_meta,       \* column count of the event's table in the worker's catalog read
    w_last,       \* the notification handled last: its command and table, the
                  \* event it ended with, and whether its table had rows before
    m_out,        \* answer of the last POST /refresh_embeddings
    w_sent,       \* the events handle_notification has broadcast for the
                  \* notification dequeued last, in order
    \* ---- DBEmbedder callers (embedder.py) ----
    b_pc,         \* position of each _ensure_store_async call
    b_force,      \* its force argument
    b_meta,       \* its by_table dict, as a sequence of [table, cols]
    b_next,       \* index into b_meta of the next table to insert
    b_pre,        \* the tenant's rows when the call deleted them
    b_out,        \* how the ensure_store / rebuild call that ended last ended
    b_calls,      \* number of ensure_store / rebuild calls so far
    hits,         \* result of the last similarity_search
    found,        \* the list the last similarity_search returned
    \* ---- worker: listeners and connection cache (listen_and_refresh.py) ----
    database_listeners, \* the dict database_listeners: database -> listener
    l_db,         \* database of each listener connection ("": not connected)
    lq,           \* the asyncio.Queue of each listener
    a_pc,         \* position of each POST /add_database_listener request
    a_db,         \* its database
    a_out,        \* its response: [status, listeners]
    h_pc,         \* position of each listener's consumer loop
    h_event,      \* the notification it is handling (0: none)
    connection_cache, \* the dict connection_cache: database -> pair
    pairs,        \* the (engine, connection) pairs created, per database
    g_pc,         \* position of each get_handles caller
    g_db,         \* the database it asked for
    g_pair,       \* the pair it received last
    n_events,     \* notifications sent so far
    \* ---- worker: shutdown (main, cleanup_connections) ----
    shutdown_event, \* shutdown_event.is_set()
    main_pc,      \* position of main: "running", "cleanup", "exited"
    closed,       \* the pairs cleanup_connections has closed and disposed
    serving,      \* run_fastapi_server is serving the control surface
    \* ---- SSE broadcaster (listen_and_refresh.py, routes_worker.py) ----
    sse_event_queues, \* the list sse_event_queues of each process
    client_queue, \* the queue.Queue of each subscriber
    s_pc,         \* position of each GET /schema_events stream
    s_proc,       \* the process the stream runs in
    s_out,        \* what the stream has yielded, in order
    n_broadcasts, \* broadcast_to_sse_clients calls so far
    t_event,      \* per thread: the event of its call that waits for the lock
    progress_queue, \* ProgressTracker.progress_queue
    is_complete,  \* ProgressTracker.is_complete
    x_pc,         \* position of the background thread of a query stream
    x_puts,       \* the updates the background thread has put, in order
    u_pc,         \* position of get_updates
    u_out         \* the items get_updates has yielded, in order

gateVars == <<command, probe, last_query, last_result, executed, gate_out,
              runs, ask_out>>

dbVars == <<catalog, ddl_count, table_exists, rows>>

workerVars == <<queue, w_pc, w_event, w_meta, w_last, m_out, w_sent>>

embedderVars == <<b_pc, b_force, b_meta, b_next, b_pre, b_out, b_calls, hits>>

indexVars == <<dbVars, workerVars, embedderVars>>

listenerVars == <<database_listeners, l_db, lq, a_pc, a_db, a_out, h_pc,
                  h_event, connection_cache, pairs, g_pc, g_db,
                  g_pair, n_events>>

shutdownVars == <<shutdown_event, main_pc, closed, serving>>

sseVars == <<sse_event_queues, client_queue>>

trackerVars == <<progress_queue, is_complete, x_pc, x_puts, u_pc, u_out>>
streamVars == <<s_pc, s_proc, s_out, n_broadcasts, t_event, trackerVars>>

vars == <<gateVars, indexVars, found, listenerVars, shutdownVars, sseVars,
          streamVars>>

----------------------------------------------------------------------------
(* Bounds *)

MaxLen == 3        \* longest SQL string (in lexemes) given to the gate
MaxRuns == 2       \* db.run calls of one agent session
MaxCols == 2       \* most columns of a user table
MaxDDL == 1        \* DDL statements run on the tenant database
MaxCalls == 2      \* ensure_store / rebuild calls
MaxAdds == 2       \* POST /add_database_listener requests
MaxEvents == 2     \* notifications sent on the channel schema_changed
MaxBad == 1        \* undecodable payloads waiting in the worker's queue
MaxK == 2          \* largest k of a similarity_search
MaxBroadcasts == 2 \* broadcast_to_sse_clients calls of the broadcaster alone
MaxUpdates == 2
MaxBeats == 1      \* heartbeats of one stream

----------------------------------------------------------------------------
(* SQL strings *)

Lexemes == {"SELECT", "WITH", "DELETE", "LIMIT", "n", ";", "'", "/*", "*/"}

RECURSIVE SeqsUpTo(_)
SeqsUpTo(n) ==
    IF n = 0 THEN {<<>>}
    ELSE LET shorter == SeqsUpTo(n - 1)
         IN  shorter \cup
             {Append(s, x) : s \in {t \in shorter : Len(t) = n - 1}, x \in Lexemes}

SqlStrings == SeqsUpTo(MaxLen)

\* statements of an agent session
AgentCommands == { <<"SELECT", "n">>,
                   <<"SELECT", "n", "LIMIT", "n">>,
                   <<"DELETE", "n">>,
                   <<"SELECT", "n", ";", "DELETE", "n">> }

----------------------------------------------------------------------------
(* verify_sql: the rules of the safety gate, in order *)

MutatingVerbs == {"INSERT", "UPDATE", "DELETE", "DROP", "ALTER", "TRUNCATE",
                  "GRANT", "REVOKE", "CREATE", "MERGE"}

DefaultLimit == <<"LIMIT", "1000">>

\* Rule 1: the top-level tokens of sql, as [lex, pos] records.  A string
\* literal is one opaque token; a comment yields no token.  closed is FALSE
\* when the input ends inside a literal or a comment.
RECURSIVE Scan(_, _, _, _)
Scan(sql, i, mode, acc) ==
    IF i > Len(sql) THEN [tokens |-> acc, closed |-> (mode = "code")]
    ELSE IF mode = "code" THEN
        IF sql[i] = "'" THEN
            Scan(sql, i + 1, "str", Append(acc, [lex |-> "<literal>", pos |-> i]))
        ELSE IF sql[i] = "/*" THEN Scan(sql, i + 1, "cmt", acc)
        ELSE Scan(sql, i + 1, "code", Append(acc, [lex |-> sql[i], pos |-> i]))
    ELSE IF mode = "str" THEN
        Scan(sql, i + 1, IF sql[i] = "'" THEN "code" ELSE "str", acc)
    ELSE
        Scan(sql, i + 1, IF sql[i] = "*/" THEN "code" ELSE "cmt", acc)

Tokenize(sql) == Scan(sql, 1, "code", <<>>)

\* Rule 2: a top-level ";" followed by a further token
MultipleStatements(toks) ==
    \E i \in 1..Len(toks) : toks[i].lex = ";" /\ i < Len(toks)

FirstKeyword(toks) == IF Len(toks) = 0 THEN "" ELSE toks[1].lex

\* Rule 3 with DELETE missing from the list of verbs
Mutating_NoDelete(toks) ==
    \/ FirstKeyword(toks) \in MutatingVerbs \ {"DELETE"}
    \/ /\ FirstKeyword(toks) = "WITH"
       /\ \E i \in 1..Len(toks) : toks[i].lex \in MutatingVerbs \ {"DELETE"}

\* Rule 3: the leading keyword is a mutating verb, or the statement is a
\* WITH statement holding a mutating verb
Mutating(toks) ==
    \/ FirstKeyword(toks) \in MutatingVerbs
    \/ /\ FirstKeyword(toks) = "WITH"
       /\ \E i \in 1..Len(toks) : toks[i].lex \in MutatingVerbs

HasTopLevelLimit(toks) == \E i \in 1..Len(toks) : toks[i].lex = "LIMIT"

RemoveAt(s, k) == [i \in 1..(Len(s) - 1) |-> IF i < k THEN s[i] ELSE s[i + 1]]

\* Rule 4 appending after a terminating ";"
AppendLimit_KeepSemicolon(sql, toks) == sql \o DefaultLimit

\* Rule 4 appending a LIMIT keyword without its row count
AppendLimit_Bare(sql, toks) ==
    LET body == IF Len(toks) > 0 /\ toks[Len(toks)].lex = ";"
                THEN RemoveAt(sql, toks[Len(toks)].pos)
                ELSE sql
    IN  Append(body, "LIMIT")

\* Rule 4: the statement without its terminating ";", with the row cap appended
AppendLimit(sql, toks) ==
    LET body == IF Len(toks) > 0 /\ toks[Len(toks)].lex = ";"
                THEN RemoveAt(sql, toks[Len(toks)].pos)
                ELSE sql
    IN  body \o DefaultLimit

Rejected(e) == [ok |-> FALSE, err |-> e, sql |-> <<>>]
Accepted(s) == [ok |-> TRUE, err |-> "", sql |-> s]

\* the gate with rule 3 applied before rule 2
verify_sql_MutatingFirst(sql, cost_probe, auto_limit) ==
    LET t == Tokenize(sql)
        toks == t.tokens
    IN  IF Mutating(toks) THEN Rejected("UnsafeSQLError")
        ELSE IF MultipleStatements(toks) THEN Rejected("MultipleStatementsError")
        ELSE IF ~t.closed THEN Rejected("UnsafeSQLError")
        ELSE LET out == IF auto_limit /\ ~HasTopLevelLimit(toks)
                        THEN AppendLimit(sql, toks) ELSE sql
             IN  IF cost_probe = "high" THEN Rejected("CostLimitExceededError")
                 ELSE Accepted(out)

\* cost_probe: "off" when the cost guard is off or no connection is given,
\* else whether the plan estimate of the statement is under ("low") or over
\* ("high") the threshold
verify_sql(sql, cost_probe, auto_limit) ==
    LET t == Tokenize(sql)
        toks == t.tokens
    IN  IF MultipleStatements(toks) THEN Rejected("MultipleStatementsError")
        ELSE IF Mutating(toks) \/ ~t.closed THEN Rejected("UnsafeSQLError")
        ELSE LET out == IF auto_limit /\ ~HasTopLevelLimit(toks)
                        THEN AppendLimit(sql, toks) ELSE sql
             IN  IF cost_probe = "high" THEN Rejected("CostLimitExceededError")
                 ELSE Accepted(out)

CostProbes == {"off", "low", "high"}

----------------------------------------------------------------------------
(* LoggingSQLDatabase.run *)

\* run executing the raw command instead of the verified one
ExecutedStatement_Raw(raw_sql, safe_sql) == raw_sql

\* the statement run passes to self._execute
ExecutedStatement(raw_sql, safe_sql) == safe_sql

Rows == <<"row">>

\* One call of db.run(command): fetch is "all" or "cursor"; db_error is the
\* database rejecting the statement inside _execute.
Run(cost_probe, fetch, db_error) ==
    LET v == verify_sql(command, cost_probe, TRUE)
    IN  /\ runs < MaxRuns
        /\ ask_out.status = "pending"
        /\ runs' = runs + 1
        /\ probe' = cost_probe
        /\ IF ~v.ok
           THEN /\ gate_out' = v.err
                /\ UNCHANGED <<last_query, last_result, executed>>
           ELSE /\ last_query' = v.sql
                /\ executed' = Append(executed, ExecutedStatement(command, v.sql))
                /\ IF db_error
                   THEN /\ gate_out' = "DatabaseError"
                        /\ UNCHANGED last_result
                   ELSE /\ gate_out' = "ok"
                        /\ last_result' = IF fetch = "cursor" THEN <<>> ELSE Rows
        /\ UNCHANGED <<command, ask_out, indexVars, found, listenerVars, shutdownVars,
                   sseVars, streamVars>>

\* the agent reacts to the tool's answer with another statement
AgentCommand ==
    /\ runs >= 1
    /\ runs < MaxRuns
    /\ ask_out.status = "pending"
    /\ gate_out # "none"
    /\ \E c \in AgentCommands : command' = c
    /\ gate_out' = "none"
    /\ UNCHANGED <<probe, last_query, last_result, executed, runs, ask_out,
                   indexVars, found, listenerVars, shutdownVars,
                   sseVars, streamVars>>

\* QueryEngine.ask after agent.invoke: re-verify db.last_query
AskFinish(cost_probe) ==
    LET v == verify_sql(last_query, cost_probe, TRUE)
    IN  /\ ask_out.status = "pending"
        /\ ask_out' = [status |-> IF v.ok THEN "ok" ELSE v.err, sql |-> v.sql]
        /\ UNCHANGED <<command, probe, last_query, last_result, executed,
                       gate_out, runs, indexVars, found, listenerVars, shutdownVars,
                   sseVars, streamVars>>

----------------------------------------------------------------------------
(* The tenant database and the relation schema_embeddings *)

Tables == {"t1", "t2"}
TableOrder == <<"t1", "t2">>     \* ORDER BY schema, table of the catalog query
Schema == "public"
Schemas == {Schema, "other"}     \* schema names a request can carry
DbName == "pagila"               \* DBEmbedder.db_name of the tenant
NULL == "<null>"
Builders == {1, 2}               \* concurrent callers of ensure_store / rebuild
OtherDb == "sakila"              \* db_name of a second tenant of the relation
OtherBuilder == 3                \* a DBEmbedder constructed with db_name = OtherDb
Embedders == Builders \cup {OtherBuilder}

\* DBEmbedder.db_name of each caller's DBEmbedder
db_name(p) == IF p \in Builders THEN DbName ELSE OtherDb

Worker == 0                      \* the writer that is not a DBEmbedder caller

\* a row of schema_embeddings; text stands for the embedded text: the unit it
\* describes ("table" or "column"), the column number and the column count;
\* by (the writer of the row) stands for the row's id
Row(by, d, s, t, unit, col, cols) ==
    [by |-> by, db_name |-> d, schema |-> s, table |-> t,
     text |-> [unit |-> unit, col |-> col, cols |-> cols]]

SameKey(r1, r2) ==
    /\ r1.db_name = r2.db_name
    /\ r1.schema = r2.schema
    /\ r1.table = r2.table

\* INSERT without the UNIQUE(db_name, schema, "table") constraint
InsertRow_NoUnique(tbl, r) ==
    IF r.db_name = NULL
    THEN [ok |-> FALSE, rows |-> tbl]
    ELSE [ok |-> TRUE, rows |-> tbl \cup {r}]

\* INSERT of one row under the constraints of CREATE TABLE schema_embeddings:
\* db_name TEXT NOT NULL and UNIQUE(db_name, schema, "table")
InsertRow(tbl, r) ==
    IF r.db_name = NULL \/ (\E q \in tbl : SameKey(q, r))
    THEN [ok |-> FALSE, rows |-> tbl]
    ELSE [ok |-> TRUE, rows |-> tbl \cup {r}]

TenantRows(tbl, d) == {r \in tbl : r.db_name = d}
TableRows(tbl, s, t) == {r \in tbl : r.schema = s /\ r.table = t}
TablesOf(tbl) == {r.table : r \in tbl}

\* the rows of the catalog read that belong to the existing tables, in order
RECURSIVE ByTable(_, _)
ByTable(cat, i) ==
    IF i > Len(TableOrder) THEN <<>>
    ELSE (IF cat[TableOrder[i]] > 0
          THEN <<[table |-> TableOrder[i], cols |-> cat[TableOrder[i]]]>>
          ELSE <<>>) \o ByTable(cat, i + 1)

----------------------------------------------------------------------------
(* DDL on the tenant database; its event trigger notifies 'schema_changed' *)

Payload(t, cmd) == [db |-> DbName, schema |-> Schema, table |-> t, command |-> cmd]

NoEvent == [db |-> "", schema |-> "", table |-> "", command |-> ""]

\* payloads that are not a change event: text that is not JSON, and a JSON
\* object without the key "command"
BadPayloads ==
    {[db |-> "", schema |-> "", table |-> "", command |-> "<not json>"],
     [db |-> DbName, schema |-> Schema, table |-> "t1", command |-> "<no key>"]}

\* json.loads and the four data[...] lookups of handle_notification succeed
Decodable(payload) == payload \notin BadPayloads

\* where the consumer loop is after an exception of handle_notification
AfterException_Stop == "stopped"

\* except Exception in handle_notification and in the consumer loop: the
\* error is logged and the loop waits for the next payload
AfterException == "idle"

Handled(e, kind, had) ==
    [command |-> e.command, table |-> e.table, kind |-> kind, had |-> had]

RunDDL(t, cols, cmd) ==
    /\ ddl_count < MaxDDL
    /\ ddl_count' = ddl_count + 1
    /\ catalog' = [catalog EXCEPT ![t] = cols]
    /\ queue' = Append(queue, Payload(t, cmd))
    /\ UNCHANGED <<table_exists, rows, w_pc, w_event, w_meta, w_last, m_out, w_sent,
                   embedderVars, gateVars, found, listenerVars, shutdownVars,
                   sseVars, streamVars>>

CreateTable(t, cols) == catalog[t] = 0 /\ RunDDL(t, cols, "CREATE TABLE")

AlterTable(t, cols) ==
    /\ catalog[t] > 0
    /\ cols # catalog[t]
    /\ RunDDL(t, cols, "ALTER TABLE")

DropTable(t) == catalog[t] > 0 /\ RunDDL(t, 0, "DROP TABLE")

\* NOTIFY schema_changed with a payload that is not a change event
NotifyBad(payload) ==
    /\ Cardinality({i \in 1..Len(queue) : ~Decodable(queue[i])}) < MaxBad
    /\ queue' = Append(queue, payload)
    /\ UNCHANGED <<dbVars, w_pc, w_event, w_meta, w_last, m_out, w_sent,
                   embedderVars, gateVars, found, listenerVars, shutdownVars,
                   sseVars, streamVars>>

----------------------------------------------------------------------------
(* SSE broadcaster: sse_event_queues, add_sse_client, remove_sse_client,
   broadcast_to_sse_clients and the stream of GET /schema_events *)

\* the operating-system processes of the application: the Flask application
\* and the worker it starts with subprocess.Popen; each has its own copy of
\* the module-level list sse_event_queues
FlaskProcess == "flask"
WorkerProcess == "worker"
Processes == {FlaskProcess, WorkerProcess}

Clients == {1, 2}                \* GET /schema_events subscribers

Event(type, t, cmd, n) == [type |-> type, table |-> t, command |-> cmd, n |-> n]

\* the first line a stream yields and the heartbeat of an idle stream
Connected == Event("connected", "", "", 0)
Heartbeat == Event("heartbeat", "", "", 0)

\* the event dicts handle_notification broadcasts about the payload e
ChangeEvent(type, e) == Event(type, e.table, e.command, 0)

\* queue.Queue(): maxsize 0, a queue without an upper bound
maxsize == 0

\* queue.Queue.put_nowait raises queue.Full
Full(q) == maxsize > 0 /\ Len(q) >= maxsize

Range(f) == {f[i] : i \in DOMAIN f}

\* broadcast_to_sse_clients in process P: put_nowait on every queue of P's
\* list, then the queues that were full are removed from the list
Broadcast(P, e) ==
    /\ client_queue' =
          [c \in Clients |->
              IF c \in Range(sse_event_queues[P]) /\ ~Full(client_queue[c])
              THEN Append(client_queue[c], e)
              ELSE client_queue[c]]
    /\ sse_event_queues' =
          [sse_event_queues EXCEPT
              ![P] = SelectSeq(@, LAMBDA c : ~Full(client_queue[c]))]

\* a caller of broadcast_to_sse_clients in process P; the events are
\* numbered in the order of the calls
BroadcastEvent(P) ==
    /\ n_broadcasts < MaxBroadcasts
    /\ n_broadcasts' = n_broadcasts + 1
    /\ Broadcast(P, Event("event", "", "", n_broadcasts + 1))
    /\ UNCHANGED <<s_pc, s_proc, s_out, t_event, gateVars, indexVars, found,
                   listenerVars, shutdownVars,
                   trackerVars>>

\* GET /schema_events in process P: add_sse_client, and the first line of
\* generate_events
S_Subscribe(c, P) ==
    /\ s_pc[c] = "off"
    /\ \A d \in Clients : d < c => s_pc[d] # "off"
    /\ s_pc' = [s_pc EXCEPT ![c] = "streaming"]
    /\ s_proc' = [s_proc EXCEPT ![c] = P]
    /\ client_queue' = [client_queue EXCEPT ![c] = <<>>]
    /\ sse_event_queues' = [sse_event_queues EXCEPT ![P] = Append(@, c)]
    /\ s_out' = [s_out EXCEPT ![c] = <<Connected>>]
    /\ UNCHANGED <<n_broadcasts, t_event, gateVars, indexVars, found,
                   listenerVars, shutdownVars,
                   trackerVars>>

\* schema_events_stream in process P up to its return: add_sse_client, and a
\* Response around the generator generate_events(), which has not started
S_Route(c, P) ==
    /\ s_pc[c] = "off"
    /\ \A d \in Clients : d < c => s_pc[d] # "off"
    /\ s_pc' = [s_pc EXCEPT ![c] = "created"]
    /\ s_proc' = [s_proc EXCEPT ![c] = P]
    /\ client_queue' = [client_queue EXCEPT ![c] = <<>>]
    /\ sse_event_queues' = [sse_event_queues EXCEPT ![P] = Append(@, c)]
    /\ UNCHANGED <<s_out, n_broadcasts, t_event, gateVars, indexVars, found,
                   listenerVars, shutdownVars,
                   trackerVars>>

\* the server takes the first item of the generator: the try of
\* generate_events is entered and the connected line is yielded
S_Start(c) ==
    /\ s_pc[c] = "created"
    /\ s_pc' = [s_pc EXCEPT ![c] = "streaming"]
    /\ s_out' = [s_out EXCEPT ![c] = <<Connected>>]
    /\ UNCHANGED <<sse_event_queues, client_queue, s_proc, n_broadcasts,
                   t_event, gateVars, indexVars, found, listenerVars,
                   shutdownVars, trackerVars>>

\* the response is closed before the server has taken an item (a HEAD
\* request, a client that is gone): close() of a generator that has not
\* started runs none of its body, so the finally with remove_sse_client is
\* not run
S_Close(c) ==
    /\ s_pc[c] = "created"
    /\ s_pc' = [s_pc EXCEPT ![c] = "closed"]
    /\ UNCHANGED <<sse_event_queues, client_queue, s_proc, s_out,
                   n_broadcasts, t_event, gateVars, indexVars, found,
                   listenerVars, shutdownVars,
                   trackerVars>>

Beats(out) == Cardinality({i \in 1..Len(out) : out[i] = Heartbeat})

\* generate_events whose timeout takes the place of the oldest queued event
S_Step_Drop(c) ==
    /\ s_pc[c] = "streaming"
    /\ Beats(s_out[c]) < MaxBeats
    /\ s_out' = [s_out EXCEPT ![c] = Append(@, Heartbeat)]
    /\ client_queue' = [client_queue EXCEPT
                           ![c] = IF @ = <<>> THEN @ ELSE Tail(@)]
    /\ UNCHANGED <<sse_event_queues, s_pc, s_proc, n_broadcasts, t_event,
                   gateVars, indexVars, found, listenerVars, shutdownVars,
                   trackerVars>>

\* one round of the loop of generate_events: event_queue.get(timeout=30)
\* yields the oldest queued event, or the heartbeat after 30 seconds with
\* an empty queue
S_Step(c) ==
    /\ s_pc[c] = "streaming"
    /\ IF client_queue[c] # <<>>
       THEN /\ s_out' = [s_out EXCEPT ![c] = Append(@, Head(client_queue[c]))]
            /\ client_queue' = [client_queue EXCEPT ![c] = Tail(@)]
       ELSE /\ Beats(s_out[c]) < MaxBeats
            /\ s_out' = [s_out EXCEPT ![c] = Append(@, Heartbeat)]
            /\ UNCHANGED client_queue
    /\ UNCHANGED <<sse_event_queues, s_pc, s_proc, n_broadcasts, t_event,
                   gateVars, indexVars, found, listenerVars, shutdownVars,
                   trackerVars>>

\* a stream that ends and leaves its queue in the list
S_Disconnect_Keep(c) ==
    /\ s_pc[c] = "streaming"
    /\ s_pc' = [s_pc EXCEPT ![c] = "closed"]
    /\ UNCHANGED <<sse_event_queues, client_queue, s_proc, s_out,
                   n_broadcasts, t_event, gateVars, indexVars, found,
                   listenerVars, shutdownVars,
                   trackerVars>>

\* the client disconnects: the finally of generate_events, remove_sse_client
S_Disconnect(c) ==
    /\ s_pc[c] = "streaming"
    /\ s_pc' = [s_pc EXCEPT ![c] = "closed"]
    /\ sse_event_queues' =
          [sse_event_queues EXCEPT
              ![s_proc[c]] = SelectSeq(@, LAMBDA d : d # c)]
    /\ UNCHANGED <<client_queue, s_proc, s_out, n_broadcasts, t_event,
                   gateVars, indexVars, found, listenerVars, shutdownVars,
                   trackerVars>>

\* remove_sse_client once more with the handle of an ended stream, after
\* which the caller drops the handle
S_Remove(c) ==
    /\ s_pc[c] = "closed"
    /\ s_pc' = [s_pc EXCEPT ![c] = "gone"]
    /\ sse_event_queues' =
          [sse_event_queues EXCEPT
              ![s_proc[c]] = SelectSeq(@, LAMBDA d : d # c)]
    /\ UNCHANGED <<client_queue, s_proc, s_out, n_broadcasts, t_event,
                   gateVars, indexVars, found, listenerVars, shutdownVars,
                   trackerVars>>

\* the threads that call broadcast_to_sse_clients
Threads == {1, 2}

NoBroadcast == Event("none", "", "", 0)

\* thread t calls broadcast_to_sse_clients: json.dumps(event_data), before
\* the lock; the events are numbered in the order of the calls
T_Call(t) ==
    /\ t_event[t] = NoBroadcast
    /\ n_broadcasts < MaxBroadcasts
    /\ n_broadcasts' = n_broadcasts + 1
    /\ t_event' = [t_event EXCEPT ![t] = Event("event", "", "", n_broadcasts + 1)]
    /\ UNCHANGED <<s_pc, s_proc, s_out, sseVars, gateVars, indexVars, found,
                   listenerVars, shutdownVars,
                   trackerVars>>

\* a broadcast that puts the event at the head of the queue of the second
\* subscriber
T_Broadcast_Front(t) ==
    /\ t_event[t] # NoBroadcast
    /\ client_queue' =
          [c \in Clients |->
              IF c \notin Range(sse_event_queues[FlaskProcess])
              THEN client_queue[c]
              ELSE IF c = 2 THEN <<t_event[t]>> \o client_queue[c]
                   ELSE Append(client_queue[c], t_event[t])]
    /\ t_event' = [t_event EXCEPT ![t] = NoBroadcast]
    /\ UNCHANGED <<sse_event_queues, s_pc, s_proc, s_out, n_broadcasts,
                   gateVars, indexVars, found, listenerVars, shutdownVars,
                   trackerVars>>

\* thread t holds sse_queue_lock: the whole body of the with statement of
\* broadcast_to_sse_clients, in the Flask process
T_Broadcast(t) ==
    /\ t_event[t] # NoBroadcast
    /\ Broadcast(FlaskProcess, t_event[t])
    /\ t_event' = [t_event EXCEPT ![t] = NoBroadcast]
    /\ UNCHANGED <<s_pc, s_proc, s_out, n_broadcasts, gateVars, indexVars,
                   found, listenerVars, shutdownVars,
                   trackerVars>>

----------------------------------------------------------------------------
(* Progress stream: ProgressTracker, execute_query_in_background and
   process_query_with_progress *)

Update(step, n) == [step |-> step, n |-> n]

\* the heartbeat dict of get_updates
Ping == Update("heartbeat", 0)

Terminal == {"complete", "error"}

\* ProgressTracker() and the start of the background thread
FreshTracker ==
    /\ progress_queue = <<>>
    /\ is_complete = FALSE
    /\ x_pc = "running"
    /\ x_puts = <<>>
    /\ u_pc = "test"
    /\ u_out = <<>>

\* tracker.update with a step that is neither complete nor error: the put
X_Update ==
    /\ x_pc = "running"
    /\ Len(x_puts) < MaxUpdates
    /\ progress_queue' = Append(progress_queue, Update("progress", Len(x_puts) + 1))
    /\ x_puts' = Append(x_puts, Update("progress", Len(x_puts) + 1))
    /\ UNCHANGED <<is_complete, x_pc, u_pc, u_out, s_pc, s_proc, s_out,
                   n_broadcasts, t_event, sseVars, gateVars, indexVars, found,
                   listenerVars, shutdownVars>>

\* tracker.update("complete", ...) at the end of the work, or
\* tracker.update("error", ...) in the except block: the put
X_Terminal(step) ==
    /\ x_pc = "running"
    /\ progress_queue' = Append(progress_queue, Update(step, Len(x_puts) + 1))
    /\ x_puts' = Append(x_puts, Update(step, Len(x_puts) + 1))
    /\ x_pc' = "assign"
    /\ UNCHANGED <<is_complete, u_pc, u_out, s_pc, s_proc, s_out,
                   n_broadcasts, t_event, sseVars, gateVars, indexVars, found,
                   listenerVars, shutdownVars>>

\* the rest of that tracker.update: self.is_complete = True
X_Assign ==
    /\ x_pc = "assign"
    /\ is_complete' = TRUE
    /\ x_pc' = "done"
    /\ UNCHANGED <<progress_queue, x_puts, u_pc, u_out, s_pc, s_proc, s_out,
                   n_broadcasts, t_event, sseVars, gateVars, indexVars, found,
                   listenerVars, shutdownVars>>

\* get_updates: the test of while not self.is_complete
U_Test ==
    /\ u_pc = "test"
    /\ u_pc' = IF is_complete THEN "drain" ELSE "get"
    /\ UNCHANGED <<progress_queue, is_complete, x_pc, x_puts, u_out, s_pc,
                   s_proc, s_out, n_broadcasts, t_event, sseVars, gateVars,
                   indexVars, found, listenerVars, shutdownVars>>

\* progress_queue.get(timeout=5) returns the oldest update, which is yielded
U_Get ==
    /\ u_pc = "get"
    /\ progress_queue # <<>>
    /\ u_out' = Append(u_out, Head(progress_queue))
    /\ progress_queue' = Tail(progress_queue)
    /\ u_pc' = "test"
    /\ UNCHANGED <<is_complete, x_pc, x_puts, s_pc, s_proc, s_out,
                   n_broadcasts, t_event, sseVars, gateVars, indexVars, found,
                   listenerVars, shutdownVars>>

Pings(out) == Cardinality({i \in 1..Len(out) : out[i] = Ping})

\* progress_queue.get(timeout=5) raises queue.Empty; late is
\* time.time() - last_ping > 30, with which the heartbeat is yielded
U_Empty(late) ==
    /\ u_pc = "get"
    /\ progress_queue = <<>>
    /\ late => Pings(u_out) < MaxBeats
    /\ u_out' = IF late THEN Append(u_out, Ping) ELSE u_out
    /\ u_pc' = "test"
    /\ UNCHANGED <<progress_queue, is_complete, x_pc, x_puts, s_pc, s_proc,
                   s_out, n_broadcasts, t_event, sseVars, gateVars, indexVars,
                   found, listenerVars, shutdownVars>>

\* a get_updates that returns when its loop has ended
U_Drain_None ==
    /\ u_pc = "drain"
    /\ u_pc' = "done"
    /\ UNCHANGED <<progress_queue, u_out, is_complete, x_pc, x_puts, s_pc,
                   s_proc, s_out, n_broadcasts, t_event, sseVars, gateVars,
                   indexVars, found, listenerVars, shutdownVars>>

\* the second loop of get_updates: while not progress_queue.empty() the
\* oldest update is yielded; then the generator returns
U_Drain ==
    /\ u_pc = "drain"
    /\ IF progress_queue # <<>>
       THEN /\ u_out' = Append(u_out, Head(progress_queue))
            /\ progress_queue' = Tail(progress_queue)
            /\ UNCHANGED u_pc
       ELSE /\ u_pc' = "done"
            /\ UNCHANGED <<progress_queue, u_out>>
    /\ UNCHANGED <<is_complete, x_pc, x_puts, s_pc, s_proc, s_out,
                   n_broadcasts, t_event, sseVars, gateVars, indexVars, found,
                   listenerVars, shutdownVars>>

\* what process_query_with_progress emits: every item but the heartbeats
Emitted(out) == SelectSeq(out, LAMBDA u : u.step # "heartbeat")

----------------------------------------------------------------------------
(* CDC worker: handle_notification, refresh_embeddings, remove_table_embeddings *)

\* remove_table_embeddings: DELETE ... WHERE schema=:s AND "table"=:t
RemoveTableEmbeddings(tbl, s, t) ==
    {r \in tbl : ~(r.schema = s /\ r.table = t)}

\* the rows refresh_embeddings inserts: one per vector, without a db_name
RefreshRow(s, t, i, cols) == Row(Worker, NULL, s, t, "column", i, cols)

RECURSIVE InsertVectors(_, _, _, _, _)
InsertVectors(tbl, s, t, i, cols) ==
    IF i > cols THEN [ok |-> TRUE, rows |-> tbl]
    ELSE LET ins == InsertRow(tbl, RefreshRow(s, t, i, cols))
         IN  IF ins.ok THEN InsertVectors(ins.rows, s, t, i + 1, cols)
             ELSE [ok |-> FALSE, rows |-> tbl]

\* refresh_embeddings: one transaction (engine.begin) that deletes the
\* table's rows and inserts one row per vector; an exception rolls it back
RefreshEmbeddings(tbl, s, t, cols) ==
    LET ins == InsertVectors(RemoveTableEmbeddings(tbl, s, t), s, t, 1, cols)
    IN  IF ins.ok THEN ins ELSE [ok |-> FALSE, rows |-> tbl]

\* process_database_notifications / schema_listener: take the next payload;
\* handle_notification decodes it and broadcasts schema_change
W_Dequeue ==
    /\ w_pc = "idle"
    /\ queue # <<>>
    /\ queue' = Tail(queue)
    /\ IF Decodable(Head(queue))
       THEN /\ w_event' = Head(queue)
            /\ w_pc' = "metadata"
            /\ w_sent' = <<ChangeEvent("schema_change", Head(queue))>>
            /\ Broadcast(WorkerProcess, ChangeEvent("schema_change", Head(queue)))
            /\ UNCHANGED w_last
       ELSE /\ w_pc' = AfterException
            /\ w_last' = Handled(Head(queue), "error", FALSE)
            /\ w_sent' = <<>>
            /\ UNCHANGED <<w_event, sseVars>>
    /\ UNCHANGED <<dbVars, w_meta, m_out, embedderVars, gateVars, found,
                   listenerVars, shutdownVars, streamVars>>

\* get_handles and get_metadata_async; fails when the database is unreachable
W_GetMetadata(fails) ==
    /\ w_pc = "metadata"
    /\ IF fails
       THEN /\ w_pc' = AfterException
            /\ w_last' = Handled(w_event, "error", FALSE)
            /\ w_event' = NoEvent
            /\ UNCHANGED w_meta
       ELSE /\ w_pc' = "apply"
            /\ w_meta' = catalog[w_event.table]
            /\ UNCHANGED <<w_last, w_event>>
    /\ UNCHANGED <<dbVars, queue, m_out, w_sent, embedderVars, gateVars, found,
                   listenerVars, shutdownVars, sseVars, streamVars>>

\* the branch on command / rows, its transaction and its broadcast
W_Apply ==
    LET had == TableRows(rows, w_event.schema, w_event.table) # {}
    IN  /\ w_pc = "apply"
        /\ w_event' = NoEvent
        /\ w_meta' = 0
        /\ IF ~table_exists
           THEN /\ w_last' = Handled(w_event, "error", had)
                /\ UNCHANGED rows
           ELSE IF w_event.command = "DROP TABLE" \/ w_meta = 0
           THEN /\ rows' = RemoveTableEmbeddings(rows, w_event.schema, w_event.table)
                /\ w_last' = Handled(w_event, "table_drop", had)
           ELSE LET tx == RefreshEmbeddings(rows, w_event.schema, w_event.table, w_meta)
                IN  /\ rows' = tx.rows
                    /\ w_last' = Handled(w_event,
                                         IF tx.ok THEN "embedding_refresh" ELSE "error",
                                         had)
        /\ w_pc' = IF w_last'.kind = "error" THEN AfterException ELSE "idle"
        /\ IF w_last'.kind = "error"
           THEN UNCHANGED <<w_sent, sseVars>>
           ELSE /\ w_sent' = Append(w_sent, ChangeEvent(w_last'.kind, w_event))
                /\ Broadcast(WorkerProcess, ChangeEvent(w_last'.kind, w_event))
        /\ UNCHANGED <<catalog, ddl_count, table_exists, queue, m_out,
                       embedderVars, gateVars, found, listenerVars,
                       shutdownVars, streamVars>>

\* the loop of manual_refresh_embeddings over the tables of its catalog read:
\* each table is refreshed in its own transaction, the first exception ends it
RECURSIVE RefreshAll(_, _, _)
RefreshAll(tbl, todo, i) ==
    IF i > Len(todo) THEN [ok |-> TRUE, rows |-> tbl]
    ELSE LET tx == RefreshEmbeddings(tbl, Schema, todo[i].table, todo[i].cols)
         IN  IF tx.ok THEN RefreshAll(tx.rows, todo, i + 1)
             ELSE [ok |-> FALSE, rows |-> tbl]

\* the filter of manual_refresh_embeddings on its catalog read: schema and
\* table, else schema alone, else every table of the database; "" is a
\* filter the request leaves out
Filtered(todo, schema, table) ==
    IF schema # "" /\ table # ""
    THEN SelectSeq(todo, LAMBDA e : Schema = schema /\ e.table = table)
    ELSE IF schema # ""
    THEN SelectSeq(todo, LAMBDA e : Schema = schema)
    ELSE todo

RECURSIVE TotalVectors(_, _)
TotalVectors(todo, i) ==
    IF i > Len(todo) THEN 0 ELSE todo[i].cols + TotalVectors(todo, i + 1)

\* the answer of POST /refresh_embeddings
Answer(status, schema, table, tables, vectors) ==
    [status |-> status, schema |-> schema, table |-> table,
     tables_processed |-> tables, total_vectors |-> vectors]

\* POST /refresh_embeddings {schema?, table?} for the tenant database
ManualRefresh(schema, table) ==
    LET todo == Filtered(ByTable(catalog, 1), schema, table)
        done == RefreshAll(rows, todo, 1)
    IN  /\ IF todo = <<>> \/ ~table_exists
           THEN /\ m_out' = Answer("error", schema, table, 0, 0)
                /\ UNCHANGED rows
           ELSE /\ rows' = done.rows
                /\ m_out' = IF done.ok
                            THEN Answer("success", schema, table, Len(todo),
                                        TotalVectors(todo, 1))
                            ELSE Answer("error", schema, table, 0, 0)
        /\ UNCHANGED <<catalog, ddl_count, table_exists, queue, w_pc, w_event,
                       w_meta, w_last, w_sent, embedderVars, gateVars, found,
                       listenerVars, shutdownVars, sseVars, streamVars>>

----------------------------------------------------------------------------
(* DBEmbedder: ensure_store, rebuild, similarity_search *)

\* the row _build_embeddings inserts for one table
BuildRow(p, e) == Row(p, db_name(p), Schema, e.table, "table", 0, e.cols)

\* ensure_store(force) / rebuild() begins with _ensure_pgvector_table: the
\* relation is created when it is missing and left as it is when it exists
\* with its db_name column
B_EnsureTable(p, force) ==
    /\ b_pc[p] = "idle"
    /\ p \in Builders => \A q \in Builders : q < p => b_pc[q] # "idle"
    /\ b_calls < MaxCalls
    /\ b_calls' = b_calls + 1
    /\ b_force' = [b_force EXCEPT ![p] = force]
    /\ table_exists' = TRUE
    /\ b_pc' = [b_pc EXCEPT ![p] = "count"]
    /\ UNCHANGED <<catalog, ddl_count, rows, workerVars, b_meta, b_next, b_pre,
                   b_out, hits, gateVars, found, listenerVars, shutdownVars,
                   sseVars, streamVars>>

\* ensure_store(force) / rebuild() begins with _ensure_pgvector_table, whose
\* migration branch is taken: the relation exists without a db_name column,
\* or the check for the column raises; DROP TABLE schema_embeddings, then
\* CREATE TABLE
B_Migrate(p, force) ==
    /\ table_exists
    /\ b_pc[p] = "idle"
    /\ b_calls < MaxCalls
    /\ b_calls' = b_calls + 1
    /\ b_force' = [b_force EXCEPT ![p] = force]
    /\ rows' = {}
    /\ b_pc' = [b_pc EXCEPT ![p] = "count"]
    /\ UNCHANGED <<catalog, ddl_count, table_exists, workerVars, b_meta,
                   b_next, b_pre, b_out, hits, gateVars, found, listenerVars,
                   shutdownVars, sseVars, streamVars>>

\* _ensure_store_async that builds whatever the count is
B_Count_AlwaysBuild(p) ==
    /\ b_pc[p] = "count"
    /\ b_pc' = [b_pc EXCEPT ![p] = IF b_force[p] THEN "delete" ELSE "metadata"]
    /\ UNCHANGED <<dbVars, workerVars, b_force, b_meta, b_next, b_pre, b_calls,
                   b_out, hits, gateVars, found, listenerVars, shutdownVars,
                   sseVars, streamVars>>

\* SELECT COUNT(*) ... WHERE db_name = $1, and the early return
B_Count(p) ==
    /\ b_pc[p] = "count"
    /\ IF TenantRows(rows, db_name(p)) # {} /\ ~b_force[p]
       THEN /\ b_pc' = [b_pc EXCEPT ![p] = "idle"]
            /\ b_out' = "loaded"
       ELSE /\ b_pc' = [b_pc EXCEPT ![p] = IF b_force[p] THEN "delete" ELSE "metadata"]
            /\ UNCHANGED b_out
    /\ UNCHANGED <<dbVars, workerVars, b_force, b_meta, b_next, b_pre, b_calls,
                   hits, gateVars, found, listenerVars, shutdownVars,
                   sseVars, streamVars>>

\* _build_embeddings whose force branch deletes nothing
B_Delete_Keep(p) ==
    /\ b_pc[p] = "delete"
    /\ b_pre' = [b_pre EXCEPT ![p] = TenantRows(rows, db_name(p))]
    /\ b_pc' = [b_pc EXCEPT ![p] = "metadata"]
    /\ UNCHANGED <<dbVars, workerVars, b_force, b_meta, b_next, b_out,
                   b_calls, hits, gateVars, found, listenerVars, shutdownVars,
                   sseVars, streamVars>>

\* _build_embeddings with force: DELETE ... WHERE db_name = $1 (autocommit)
B_Delete(p) ==
    /\ b_pc[p] = "delete"
    /\ b_pre' = [b_pre EXCEPT ![p] = TenantRows(rows, db_name(p))]
    /\ rows' = rows \ TenantRows(rows, db_name(p))
    /\ b_pc' = [b_pc EXCEPT ![p] = "metadata"]
    /\ UNCHANGED <<catalog, ddl_count, table_exists, workerVars, b_force,
                   b_meta, b_next, b_out, b_calls, hits, gateVars, found, listenerVars, shutdownVars,
                   sseVars, streamVars>>

\* get_metadata and the by_table grouping
B_GetMetadata(p) ==
    LET meta == ByTable(catalog, 1)
    IN  /\ b_pc[p] = "metadata"
        /\ b_meta' = [b_meta EXCEPT ![p] = meta]
        /\ b_next' = [b_next EXCEPT ![p] = 1]
        /\ IF meta = <<>>
           THEN /\ b_pc' = [b_pc EXCEPT ![p] = "idle"]
                /\ b_out' = "built"
                /\ b_pre' = [b_pre EXCEPT ![p] = {}]
                /\ b_force' = [b_force EXCEPT ![p] = FALSE]
           ELSE /\ b_pc' = [b_pc EXCEPT ![p] = "insert"]
                /\ UNCHANGED <<b_out, b_pre, b_force>>
        /\ UNCHANGED <<dbVars, workerVars, b_calls, hits, gateVars, found, listenerVars, shutdownVars,
                   sseVars, streamVars>>

\* one INSERT of the loop over by_table (autocommit); a constraint violation
\* raises out of ensure_store
B_Insert(p) ==
    LET ins == InsertRow(rows, BuildRow(p, b_meta[p][b_next[p]]))
        last == b_next[p] = Len(b_meta[p])
    IN  /\ b_pc[p] = "insert"
        /\ rows' = ins.rows
        /\ IF ~ins.ok \/ last
           THEN /\ b_pc' = [b_pc EXCEPT ![p] = "idle"]
                /\ b_out' = IF ins.ok THEN "built" ELSE "error"
                /\ b_meta' = [b_meta EXCEPT ![p] = <<>>]
                /\ b_next' = [b_next EXCEPT ![p] = 1]
                /\ b_pre' = [b_pre EXCEPT ![p] = {}]
                /\ b_force' = [b_force EXCEPT ![p] = FALSE]
           ELSE /\ b_next' = [b_next EXCEPT ![p] = b_next[p] + 1]
                /\ UNCHANGED <<b_pc, b_out, b_meta, b_pre, b_force>>
        /\ UNCHANGED <<catalog, ddl_count, table_exists, workerVars, b_calls,
                       hits, gateVars, found, listenerVars, shutdownVars,
                   sseVars, streamVars>>

\* an exception inside _build_embeddings (get_metadata, embed_query or an
\* INSERT raises): it leaves ensure_store / rebuild through the finally that
\* closes the connection
B_Fail(p) ==
    /\ b_pc[p] \in {"metadata", "insert"}
    /\ b_pc' = [b_pc EXCEPT ![p] = "idle"]
    /\ b_out' = "error"
    /\ b_meta' = [b_meta EXCEPT ![p] = <<>>]
    /\ b_next' = [b_next EXCEPT ![p] = 1]
    /\ b_pre' = [b_pre EXCEPT ![p] = {}]
    /\ b_force' = [b_force EXCEPT ![p] = FALSE]
    /\ UNCHANGED <<dbVars, workerVars, b_calls, hits, gateVars, found,
                   listenerVars, shutdownVars,
                   sseVars, streamVars>>

\* the tables the SELECT of _similarity_search_async returns for the tenant
SearchTables(tbl, d) == TablesOf(TenantRows(tbl, d))

\* Cosine similarities in tenths; NaN stands for the float NaN and None for
\* the Python None a score can be returned as.
NaN == 999
None == -999
Similarities == {-5, 5, 10, NaN}

\* embedding <=> $1: the cosine distance, 1 - similarity
Distance(sim) == IF sim = NaN THEN NaN ELSE 10 - sim

\* 1 - (embedding <=> $1) AS similarity_score
SimilarityScore(sim) == IF Distance(sim) = NaN THEN NaN ELSE 10 - Distance(sim)

\* _safe_score that also maps a value outside [0,1] to None
SafeScore_Clamped(raw) == IF raw = NaN \/ raw < 0 \/ raw > 10 THEN None ELSE raw

\* _safe_score: None for NaN and infinities, the float otherwise
SafeScore(raw) == IF raw = NaN THEN None ELSE raw

\* ORDER BY embedding <=> $1: ascending distance, NaN after every number;
\* rows at the same distance come in an order SQL leaves open
OrderedBy(out, sim) ==
    \A i, j \in 1..Len(out) :
        i < j => Distance(sim[out[i].table]) <= Distance(sim[out[j].table])

\* the orders in which the SELECT may return the rows of cands
Orderings(cands, sim) ==
    {out \in [1..Cardinality(cands) -> cands] :
        /\ \A i, j \in 1..Cardinality(cands) : i # j => out[i] # out[j]
        /\ OrderedBy(out, sim)}

Min(a, b) == IF a < b THEN a ELSE b

\* LIMIT $3 and the list comprehension over the fetched rows
Results(out, k, sim) ==
    [i \in 1..Min(k, Len(out)) |->
        [table |-> out[i].table,
         score |-> SafeScore(SimilarityScore(sim[out[i].table]))]]

\* similarity_search(query, k): one SELECT over schema_embeddings; sim gives
\* the cosine similarity of the query to the record of each table. An
\* exception of the SELECT leaves the call as it is raised.
Search(k, sim) ==
    /\ IF table_exists
       THEN /\ hits' = [status |-> "ok", tables |-> SearchTables(rows, DbName)]
            /\ \E out \in Orderings(TenantRows(rows, DbName), sim) :
                  found' = Results(out, k, sim)
       ELSE /\ hits' = [status |-> "error", tables |-> {}]
            /\ found' = <<>>
    /\ UNCHANGED <<dbVars, workerVars, b_pc, b_force, b_meta, b_next, b_pre,
                   b_out, b_calls, gateVars, listenerVars, shutdownVars,
                   sseVars, streamVars>>

----------------------------------------------------------------------------
(* Worker process: listeners, consumer loops and the connection cache *)

Databases == {"pagila", "sakila"}
BaseDb == "pagila"               \* the database of BASE_DATABASE_URL
BaseListener == 0                \* schema_listener, started by main
Requests == 1..MaxAdds           \* add_database_listener requests; request r
                                 \* opens listener connection r
Listeners == 0..MaxAdds
ManualCaller == MaxAdds + 1      \* manual_refresh_embeddings as get_handles caller
Callers == 0..(MaxAdds + 1)
NoListener == -1
NoPair == -1
NoKey == {"<no such key>"}       \* a response without active_listeners

\* list(database_listeners.keys())
ActiveListeners(dl) == {d \in Databases : dl[d] # NoListener}

Response(status, listeners) == [status |-> status, listeners |-> listeners]

\* add_database_listener, up to its first await: the membership test
A_Check(r, db) ==
    /\ a_pc[r] = "idle"
    /\ serving
    /\ \A q \in Requests : q < r => a_pc[q] # "idle"
    /\ a_db' = [a_db EXCEPT ![r] = db]
    /\ IF database_listeners[db] # NoListener
       THEN /\ a_pc' = [a_pc EXCEPT ![r] = "done"]
            /\ a_out' = [a_out EXCEPT ![r] = Response("info", NoKey)]
       ELSE /\ a_pc' = [a_pc EXCEPT ![r] = "connect"]
            /\ UNCHANGED a_out
    /\ UNCHANGED <<database_listeners, l_db, lq, h_pc, h_event,
                   connection_cache, pairs, g_pc, g_db, g_pair, n_events,
                   gateVars, indexVars, found, shutdownVars,
                   sseVars, streamVars>>

\* await asyncpg.connect(listen_dsn); an exception answers with status error
A_Connect(r, fails) ==
    /\ a_pc[r] = "connect"
    /\ IF fails
       THEN /\ a_pc' = [a_pc EXCEPT ![r] = "done"]
            /\ a_out' = [a_out EXCEPT ![r] = Response("error", NoKey)]
            /\ UNCHANGED l_db
       ELSE /\ a_pc' = [a_pc EXCEPT ![r] = "listen"]
            /\ l_db' = [l_db EXCEPT ![r] = a_db[r]]
            /\ UNCHANGED a_out
    /\ UNCHANGED <<database_listeners, lq, a_db, h_pc, h_event,
                   connection_cache, pairs, g_pc, g_db, g_pair, n_events,
                   gateVars, indexVars, found, shutdownVars,
                   sseVars, streamVars>>

\* await add_listener returns; then, without a further await, the connection
\* is stored, the consumer task is created and the response is built
A_Listen(r) ==
    /\ a_pc[r] = "listen"
    /\ database_listeners' = [database_listeners EXCEPT ![a_db[r]] = r]
    /\ h_pc' = [h_pc EXCEPT ![r] = IF shutdown_event THEN "stopped" ELSE "idle"]
    /\ a_pc' = [a_pc EXCEPT ![r] = "done"]
    /\ a_out' = [a_out EXCEPT ![r] =
                    Response("success", ActiveListeners(database_listeners'))]
    /\ UNCHANGED <<l_db, lq, a_db, h_event, connection_cache, pairs,
                   g_pc, g_db, g_pair, n_events, gateVars, indexVars, found, shutdownVars,
                   sseVars, streamVars>>

\* the listener connections that receive the notifications of database db:
\* their callback is registered and puts the payload on their queue
\* (schema_listener closes its connection when its loop has ended)
Subscribed(db) ==
    {l \in Listeners : /\ l_db[l] = db
                       /\ h_pc[l] # "off"
                       /\ ~(l = BaseListener /\ h_pc[l] = "stopped")}

\* NOTIFY schema_changed on database db: every subscribed connection's
\* notification_handler runs queue.put_nowait(payload)
Notify(db) ==
    /\ n_events < MaxEvents
    /\ n_events' = n_events + 1
    /\ lq' = [l \in Listeners |->
                IF l \in Subscribed(db) THEN Append(lq[l], n_events + 1)
                ELSE lq[l]]
    /\ UNCHANGED <<database_listeners, l_db, a_pc, a_db, a_out, h_pc, h_event,
                   connection_cache, pairs, g_pc, g_db, g_pair,
                   gateVars, indexVars, found, shutdownVars,
                   sseVars, streamVars>>

\* get_handles up to its await: a cache hit returns the cached pair, a miss
\* goes on to asyncpg.connect
GetHandles(c, db) ==
    /\ g_db' = [g_db EXCEPT ![c] = db]
    /\ IF connection_cache[db] # NoPair
       THEN /\ g_pair' = [g_pair EXCEPT ![c] = connection_cache[db]]
            /\ g_pc' = [g_pc EXCEPT ![c] = "got"]
       ELSE /\ g_pc' = [g_pc EXCEPT ![c] = "connecting"]
            /\ UNCHANGED g_pair

\* get_handles after await asyncpg.connect: the caller's new pair is cached
\* and returned
G_Connected(c) ==
    /\ g_pc[c] = "connecting"
    /\ pairs' = [pairs EXCEPT ![g_db[c]] = @ \cup {c}]
    /\ connection_cache' = [connection_cache EXCEPT ![g_db[c]] = c]
    /\ g_pair' = [g_pair EXCEPT ![c] = c]
    /\ g_pc' = [g_pc EXCEPT ![c] = "got"]
    /\ UNCHANGED <<database_listeners, l_db, lq, a_pc, a_db, a_out, h_pc,
                   h_event, g_db, n_events, gateVars, indexVars, found, shutdownVars,
                   sseVars, streamVars>>

\* a loop that reads the next payload and leaves it on the queue
H_Dequeue_Peek(l) ==
    /\ h_pc[l] = "idle"
    /\ lq[l] # <<>>
    /\ h_event' = [h_event EXCEPT ![l] = Head(lq[l])]
    /\ h_pc' = [h_pc EXCEPT ![l] = "handles"]
    /\ GetHandles(l, l_db[l])
    /\ UNCHANGED <<database_listeners, l_db, lq, a_pc, a_db, a_out,
                   connection_cache, pairs, n_events, gateVars, indexVars,
                   found, shutdownVars, sseVars, streamVars>>

\* the consumer loop of listener l, waiting in wait_for(queue.get(), 1.0)
\* after its test of shutdown_event, takes the next payload:
\* handle_notification decodes it, broadcasts schema_change and calls
\* get_handles
H_Dequeue(l) ==
    /\ h_pc[l] = "idle"
    /\ lq[l] # <<>>
    /\ h_event' = [h_event EXCEPT ![l] = Head(lq[l])]
    /\ lq' = [lq EXCEPT ![l] = Tail(lq[l])]
    /\ h_pc' = [h_pc EXCEPT ![l] = "handles"]
    /\ GetHandles(l, l_db[l])
    /\ UNCHANGED <<database_listeners, l_db, a_pc, a_db, a_out,
                   connection_cache, pairs, n_events, gateVars, indexVars, found, shutdownVars,
                   sseVars, streamVars>>

\* the loop that goes on waiting whatever shutdown_event is
H_Timeout_Continue(l) ==
    /\ h_pc[l] = "idle"
    /\ lq[l] = <<>>
    /\ shutdown_event
    /\ UNCHANGED vars

\* wait_for times out on an empty queue and the loop tests shutdown_event:
\* set, the loop ends (unset, it waits again, which changes nothing)
H_Timeout(l) ==
    /\ h_pc[l] = "idle"
    /\ lq[l] = <<>>
    /\ shutdown_event
    /\ h_pc' = [h_pc EXCEPT ![l] = "stopped"]
    /\ UNCHANGED <<database_listeners, l_db, lq, a_pc, a_db, a_out, h_event,
                   connection_cache, pairs, g_pc, g_db, g_pair, n_events,
                   gateVars, indexVars, found, shutdownVars, sseVars,
                   streamVars>>

\* handle_notification with its handles: get_metadata_async, the index
\* transaction and the broadcast; then the loop tests shutdown_event and
\* waits for the next payload or ends
H_Handle(l) ==
    /\ h_pc[l] = "handles"
    /\ g_pc[l] = "got"
    /\ g_pc' = [g_pc EXCEPT ![l] = "none"]
    /\ h_event' = [h_event EXCEPT ![l] = 0]
    /\ h_pc' = [h_pc EXCEPT ![l] = IF shutdown_event THEN "stopped" ELSE "idle"]
    /\ UNCHANGED <<database_listeners, l_db, lq, a_pc, a_db, a_out,
                   connection_cache, pairs, g_db, g_pair, n_events, gateVars,
                   indexVars, found, shutdownVars,
                   sseVars, streamVars>>

\* POST /refresh_embeddings asks get_handles for the handles of db
M_GetHandles(db) ==
    /\ g_pc[ManualCaller] # "connecting"
    /\ GetHandles(ManualCaller, db)
    /\ UNCHANGED <<database_listeners, l_db, lq, a_pc, a_db, a_out, h_pc,
                   h_event, connection_cache, pairs, n_events,
                   gateVars, indexVars, found, shutdownVars,
                   sseVars, streamVars>>

\* signal_handler on SIGINT / SIGTERM: shutdown_event.set()
Signal ==
    /\ ~shutdown_event
    /\ shutdown_event' = TRUE
    /\ UNCHANGED <<main_pc, closed, serving, listenerVars, gateVars, indexVars,
                   found, sseVars, streamVars>>

\* schema_listener begins: with a base connection target it connects and
\* listens; without one it raises, which asyncio.gather of main keeps as a
\* result (return_exceptions=True)
StartListener(configured) ==
    /\ h_pc[BaseListener] = "starting"
    /\ h_pc' = [h_pc EXCEPT ![BaseListener] =
                   IF configured THEN "idle" ELSE "failed"]
    /\ l_db' = [l_db EXCEPT ![BaseListener] = IF configured THEN BaseDb ELSE ""]
    /\ UNCHANGED <<database_listeners, lq, a_pc, a_db, a_out, h_event,
                   connection_cache, pairs, g_pc, g_db, g_pair, n_events,
                   gateVars, indexVars, found, shutdownVars, sseVars,
                   streamVars>>

\* server.serve() returns after the signal, when no request is in progress
ServerExit ==
    /\ serving
    /\ shutdown_event
    /\ \A r \in Requests : a_pc[r] \in {"idle", "done"}
    /\ serving' = FALSE
    /\ UNCHANGED <<shutdown_event, main_pc, closed, listenerVars, gateVars,
                   indexVars, found, sseVars, streamVars>>

\* the pairs in connection_cache, each as <<database, pair>>
Cached == {<<d, connection_cache[d]>> : d \in {x \in Databases : connection_cache[x] # NoPair}}

\* main after asyncio.gather: schema_listener has left its loop; the finally of
\* main runs cleanup_connections, which closes the connection and disposes
\* the engine of every cached pair and clears the cache; for the databases
\* in bad, conn.close() raises, which is logged and skips engine.dispose().
\* The gather returns when schema_listener and run_fastapi_server have ended.
CleanupConnections(bad) ==
    /\ main_pc = "running"
    /\ h_pc[BaseListener] \in {"stopped", "failed"}
    /\ ~serving
    /\ closed' = closed \cup {p \in Cached : p[1] \notin bad}
    /\ connection_cache' = [d \in Databases |-> NoPair]
    /\ main_pc' = "exited"
    /\ UNCHANGED <<shutdown_event, serving, database_listeners, l_db, lq, a_pc,
                   a_db, a_out, h_pc, h_event, pairs, g_pc, g_db, g_pair, n_events,
                   gateVars, indexVars, found, sseVars, streamVars>>

\* the worker process with its schema_listener at position pc, connected to
\* db: no other listener and no pair exists, the control surface serves
WorkerAt(pc, db) ==
    /\ database_listeners = [d \in Databases |-> NoListener]
    /\ l_db = [l \in Listeners |-> IF l = BaseListener THEN db ELSE ""]
    /\ lq = [l \in Listeners |-> <<>>]
    /\ a_pc = [r \in Requests |-> "idle"]
    /\ a_db = [r \in Requests |-> ""]
    /\ a_out = [r \in Requests |-> Response("none", NoKey)]
    /\ h_pc = [l \in Listeners |-> IF l = BaseListener THEN pc ELSE "off"]
    /\ h_event = [l \in Listeners |-> 0]
    /\ connection_cache = [d \in Databases |-> NoPair]
    /\ pairs = [d \in Databases |-> {}]
    /\ g_pc = [c \in Callers |-> "none"]
    /\ g_db = [c \in Callers |-> ""]
    /\ g_pair = [c \in Callers |-> NoPair]
    /\ n_events = 0
    /\ shutdown_event = FALSE
    /\ main_pc = "running"
    /\ closed = {}
    /\ serving = TRUE
    /\ sse_event_queues = [P \in Processes |-> <<>>]
    /\ client_queue = [c \in Clients |-> <<>>]
    /\ s_pc = [c \in Clients |-> "off"]
    /\ s_proc = [c \in Clients |-> FlaskProcess]
    /\ s_out = [c \in Clients |-> <<>>]
    /\ n_broadcasts = 0
    /\ t_event = [t \in Threads |-> NoBroadcast]
    /\ FreshTracker

\* the worker process after main has started schema_listener: the base
\* listener is connected and consumes
FreshWorker == WorkerAt("idle", BaseDb)

----------------------------------------------------------------------------
(* Specifications *)

\* the state of a fresh LoggingSQLDatabase whose agent is about to run c
FreshDatabase(c) ==
    /\ command = c
    /\ probe = "off"
    /\ last_query = <<>>
    /\ last_result = <<>>
    /\ executed = <<>>
    /\ gate_out = "none"
    /\ runs = 0
    /\ ask_out = [status |-> "pending", sql |-> <<>>]

\* the user tables of the tenant database at the start: t1, with one column
InitialCatalog == [t \in Tables |-> IF t = "t1" THEN 1 ELSE 0]

\* a tenant database with its user tables and no schema_embeddings yet, and
\* no DBEmbedder call in progress
FreshTenant ==
    /\ catalog = InitialCatalog
    /\ ddl_count = 0
    /\ table_exists = FALSE
    /\ rows = {}
    /\ queue = <<>>
    /\ w_pc = "idle"
    /\ w_event = NoEvent
    /\ w_meta = 0
    /\ w_last = Handled(NoEvent, "none", FALSE)
    /\ m_out = Answer("none", "", "", 0, 0)
    /\ w_sent = <<>>
    /\ b_pc = [p \in Embedders |-> "idle"]
    /\ b_force = [p \in Embedders |-> FALSE]
    /\ b_meta = [p \in Embedders |-> <<>>]
    /\ b_next = [p \in Embedders |-> 1]
    /\ b_pre = [p \in Embedders |-> {}]
    /\ b_out = "none"
    /\ b_calls = 0
    /\ hits = [status |-> "none", tables |-> {}]
    /\ found = <<>>

\* the tenant database next to an idle worker
FreshIndex == FreshTenant /\ FreshWorker

\* The gate on every SQL string: one db.run, then the re-verification of ask.
InitGate == FreshIndex /\ \E c \in SqlStrings : FreshDatabase(c)

NextGate ==
    \/ \E p \in CostProbes, f \in {"all", "cursor"}, e \in BOOLEAN :
          runs = 0 /\ Run(p, f, e)
    \/ \E p \in CostProbes : AskFinish(p)

SpecGate == InitGate /\ [][NextGate]_vars

\* An agent session: up to MaxRuns db.run calls, then the end of ask.
InitAgent == FreshIndex /\ \E c \in AgentCommands : FreshDatabase(c)

NextAgent ==
    \/ \E p \in CostProbes, f \in {"all", "cursor"}, e \in BOOLEAN : Run(p, f, e)
    \/ AgentCommand
    \/ \E p \in CostProbes : AskFinish(p)

SpecAgent == InitAgent /\ [][NextAgent]_vars

InitIndex == FreshIndex /\ FreshDatabase(<<>>)

\* a query that is nearer to t1 than to any other table
PlainQuery == [t \in Tables |-> IF t = "t1" THEN 10 ELSE 5]

DDL ==
    \/ \E t \in Tables, c \in 1..MaxCols : CreateTable(t, c)
    \/ \E t \in Tables, c \in 1..MaxCols : AlterTable(t, c)
    \/ \E t \in Tables : DropTable(t)

HandleNotifications ==
    \/ W_Dequeue
    \/ \E f \in BOOLEAN : W_GetMetadata(f)
    \/ W_Apply

Build(p) ==
    \/ \E f \in BOOLEAN : B_EnsureTable(p, f)
    \/ B_Count(p)
    \/ B_Delete(p)
    \/ B_GetMetadata(p)
    \/ B_Insert(p)

\* The CDC worker of one tenant: DDL on the tenant database, the worker's
\* handling of the notifications, one ensure_store / rebuild caller at a
\* time and searches.
NextWorker ==
    \/ DDL
    \/ HandleNotifications
    \/ \E s \in Schemas \cup {""}, t \in Tables \cup {""} : ManualRefresh(s, t)
    \/ Build(1)
    \/ Search(MaxK, PlainQuery)

SpecWorker == InitIndex /\ [][NextWorker]_vars

\* The embedding store under concurrent callers: ensure_store / rebuild
\* calls and searches over an unchanging catalog.
NextStore == (\E p \in Builders : Build(p)) \/ Search(MaxK, PlainQuery)

SpecStore == InitIndex /\ [][NextStore]_vars

\* Every writer of schema_embeddings: DDL and the CDC worker, manual
\* refreshes and concurrent ensure_store / rebuild callers.
NextIndex ==
    \/ DDL
    \/ HandleNotifications
    \/ \E p \in Builders : Build(p)

SpecIndex == InitIndex /\ [][NextIndex]_vars

\* The consumer loop on a channel that also carries payloads that are not
\* change events, next to one DBEmbedder caller.
NextConsumer ==
    \/ DDL
    \/ \E b \in BadPayloads : NotifyBad(b)
    \/ HandleNotifications
    \/ Build(1)

SpecConsumer == InitIndex /\ [][NextConsumer]_vars

\* One DBEmbedder caller on a tenant whose schema changes: ensure_store,
\* rebuild and similarity_search for every k and every query.
NextSearch ==
    \/ DDL
    \/ Build(1)
    \/ \E k \in 1..MaxK, sim \in [Tables -> Similarities] : Search(k, sim)

SpecSearch == InitIndex /\ [][NextSearch]_vars

\* ensure_store / rebuild callers of two tenants that share the relation
\* schema_embeddings, with and without the migration branches.
NextEnsure ==
    \/ DDL
    \/ Build(1)
    \/ Build(OtherBuilder)
    \/ \E p \in {1, OtherBuilder}, f \in BOOLEAN : B_Migrate(p, f)

SpecEnsure == InitIndex /\ [][NextEnsure]_vars

\* Two tenants whose records are in one relation schema_embeddings: the CDC
\* worker, the ensure_store / rebuild calls and the searches of the tenant
\* DbName, next to the ensure_store / rebuild calls of the tenant OtherDb.
NextTenants ==
    \/ DDL
    \/ HandleNotifications
    \/ Build(1)
    \/ Build(OtherBuilder)
    \/ Search(MaxK, PlainQuery)

SpecTenants == InitIndex /\ [][NextTenants]_vars

\* One DBEmbedder caller whose builds can fail: an exception of the catalog
\* read, of the embedding model or of an INSERT ends the call.
NextRebuild ==
    \/ DDL
    \/ Build(1)
    \/ B_Fail(1)
    \/ Search(MaxK, PlainQuery)

SpecRebuild == InitIndex /\ [][NextRebuild]_vars

\* The broadcaster inside one process: the streams of GET /schema_events and
\* the callers of broadcast_to_sse_clients share one list sse_event_queues.
Stream(c, P) == S_Subscribe(c, P) \/ S_Step(c) \/ S_Disconnect(c)

NextBroadcaster ==
    \/ \E c \in Clients : Stream(c, FlaskProcess)
    \/ BroadcastEvent(FlaskProcess)

SpecBroadcaster == InitIndex /\ [][NextBroadcaster]_vars

\* The subscriber list of one process under threads: streams that come and
\* go, a repeated remove_sse_client, and threads that broadcast.
NextThreads ==
    \/ \E c \in Clients : Stream(c, FlaskProcess)
    \/ \E c \in Clients : S_Remove(c)
    \/ \E t \in Threads : T_Call(t)
    \/ \E t \in Threads : T_Broadcast(t)

SpecThreads == InitIndex /\ [][NextThreads]_vars

\* The requests of GET /schema_events from the call of the route to the end
\* of the response, next to a broadcaster.
NextStream ==
    \/ \E c \in Clients : S_Route(c, FlaskProcess)
    \/ \E c \in Clients : S_Start(c)
    \/ \E c \in Clients : S_Close(c)
    \/ \E c \in Clients : S_Step(c)
    \/ \E c \in Clients : S_Disconnect(c)
    \/ BroadcastEvent(FlaskProcess)

SpecStream == InitIndex /\ [][NextStream]_vars

\* A query stream: the background thread and get_updates; both run on, the
\* background work comes to its end.
NextTracker ==
    \/ X_Update
    \/ \E step \in Terminal : X_Terminal(step)
    \/ X_Assign
    \/ U_Test
    \/ U_Get
    \/ \E late \in BOOLEAN : U_Empty(late)
    \/ U_Drain

FairTracker ==
    /\ WF_vars(\E step \in Terminal : X_Terminal(step))
    /\ WF_vars(X_Assign)
    /\ WF_vars(U_Test)
    /\ WF_vars(U_Get)
    /\ WF_vars(U_Empty(FALSE))
    /\ WF_vars(U_Drain)

SpecTracker == InitIndex /\ [][NextTracker]_vars /\ FairTracker

\* The application as app.py starts it: the streams of GET /schema_events run
\* in the Flask process, handle_notification in the worker process.
NextDeployment ==
    \/ DDL
    \/ HandleNotifications
    \/ Build(1)
    \/ \E c \in Clients : Stream(c, FlaskProcess)

SpecDeployment == InitIndex /\ [][NextDeployment]_vars

\* The worker process: listener requests, notifications, the consumer loops
\* and the callers of get_handles.
AddListener(r) ==
    \/ \E d \in Databases : A_Check(r, d)
    \/ \E f \in BOOLEAN : A_Connect(r, f)
    \/ A_Listen(r)

Consume(l) == H_Dequeue(l) \/ H_Handle(l)

NextListener ==
    \/ \E r \in Requests : AddListener(r)
    \/ \E d \in Databases : Notify(d)
    \/ \E l \in Listeners : Consume(l)
    \/ \E c \in Callers : G_Connected(c)

SpecListener == InitIndex /\ [][NextListener]_vars

\* The worker process up to its shutdown: a signal, then the cleanup of main.
NextShutdown ==
    \/ NextListener
    \/ Signal
    \/ ServerExit
    \/ \E l \in Listeners : H_Timeout(l)
    \/ \E bad \in SUBSET Databases : CleanupConnections(bad)

SpecShutdown == InitIndex /\ [][NextShutdown]_vars

\* The worker process from the start of main: schema_listener begins with
\* or without a base connection target, the control surface serves.
InitStartup == FreshTenant /\ WorkerAt("starting", "") /\ FreshDatabase(<<>>)

NextStartup ==
    \/ \E c \in BOOLEAN : StartListener(c)
    \/ NextShutdown

SpecStartup == InitStartup /\ [][NextStartup]_vars

\* The tenant loops up to their end: the base loop and the loop of one added
\* listener, notifications and a signal. The event loop runs every task
\* that can run, a timeout fires and an awaited connection is made.
Loops == {BaseListener, 1}

NextStop ==
    \/ AddListener(1)
    \/ \E d \in Databases : Notify(d)
    \/ \E l \in Loops : Consume(l)
    \/ \E l \in Loops : H_Timeout(l)
    \/ \E c \in Loops : G_Connected(c)
    \/ Signal

FairStop ==
    \A l \in Loops :
        /\ WF_vars(H_Dequeue(l))
        /\ WF_vars(H_Handle(l))
        /\ WF_vars(H_Timeout(l))
        /\ WF_vars(G_Connected(l))

SpecStop == InitIndex /\ [][NextStop]_vars /\ FairStop

\* The connection cache: the base listener's consumer and refresh requests
\* call get_handles.
NextCache ==
    \/ \E d \in Databases : Notify(d)
    \/ Consume(BaseListener)
    \/ \E c \in Callers : G_Connected(c)
    \/ \E d \in Databases : M_GetHandles(d)

SpecCache == InitIndex /\ [][NextCache]_vars

----------------------------------------------------------------------------
(* Properties of the SQL safety gate *)

CommandTokens == Tokenize(command).tokens

\* db.run has returned or raised for the current command
RunReturned == runs >= 1 /\ gate_out # "none"

\* the number of non-empty top-level statements of a token sequence
RECURSIVE StatementCount(_, _, _)
StatementCount(toks, i, open) ==
    IF i > Len(toks) THEN 0
    ELSE IF toks[i].lex = ";" THEN StatementCount(toks, i + 1, FALSE)
    ELSE (IF open THEN 0 ELSE 1) + StatementCount(toks, i + 1, TRUE)

EndsWithDefaultLimit(s) ==
    /\ Len(s) >= 2
    /\ SubSeq(s, Len(s) - 1, Len(s)) = DefaultLimit

\* C1: every statement db.run hands to the database is what verify_sql
\* returned for that call, and a call in which verify_sql raises executes
\* nothing and leaves last_query and last_result as they were.
C1_GateBeforeExecute ==
    [][ runs' # runs =>
          LET v == verify_sql(command, probe', TRUE)
          IN  /\ v.ok => /\ executed' = Append(executed, v.sql)
                         /\ last_query' = v.sql
              /\ ~v.ok => /\ gate_out' \in {"UnsafeSQLError",
                                            "MultipleStatementsError",
                                            "CostLimitExceededError"}
                          /\ executed' = executed
                          /\ last_query' = last_query
                          /\ last_result' = last_result ]_vars

\* a second run was rejected by the gate after a first one had stored a
\* query and rows
C1_Witness ==
    /\ runs = 2
    /\ gate_out \in {"UnsafeSQLError", "MultipleStatementsError",
                     "CostLimitExceededError"}
    /\ Len(executed) = 1
    /\ last_query = executed[1]
    /\ last_result = Rows

C3_MultipleStatementsRejected ==
    StatementCount(CommandTokens, 1, FALSE) >= 2 =>
        /\ \A p \in CostProbes, al \in BOOLEAN :
              verify_sql(command, p, al) = Rejected("MultipleStatementsError")
        /\ RunReturned => gate_out = "MultipleStatementsError"

\* a mutating statement followed by a second statement was run and rejected
\* as a multiple statement
C3_Witness ==
    /\ command = <<"DELETE", ";", "n">>
    /\ RunReturned
    /\ gate_out = "MultipleStatementsError"

\* C4: an accepted statement that has no top-level LIMIT comes back, with
\* auto_limit, as the statement followed by the default row cap.
C4_LimitAppended ==
    ~HasTopLevelLimit(CommandTokens) =>
        /\ \A p \in CostProbes :
              LET v == verify_sql(command, p, TRUE)
              IN  v.ok => /\ EndsWithDefaultLimit(v.sql)
                          /\ \/ SubSeq(v.sql, 1, Len(v.sql) - 2) = command
                             \/ /\ Len(command) > 0
                                /\ \E k \in 1..Len(command) :
                                      /\ command[k] = ";"
                                      /\ SubSeq(v.sql, 1, Len(v.sql) - 2)
                                            = RemoveAt(command, k)
        /\ (RunReturned /\ gate_out \in {"ok", "DatabaseError"}) =>
              /\ EndsWithDefaultLimit(last_query)
              /\ EndsWithDefaultLimit(executed[Len(executed)])

\* a statement whose only LIMIT is inside a comment was run and capped
C4_Witness ==
    /\ command = <<"/*", "LIMIT", "*/">>
    /\ RunReturned
    /\ gate_out = "ok"
    /\ last_query = <<"/*", "LIMIT", "*/", "LIMIT", "1000">>

----------------------------------------------------------------------------
(* Properties of the embedding index *)

\* no notification for table t is waiting or being handled
NoPendingEvent(t) ==
    /\ w_event.table # t
    /\ \A i \in 1..Len(queue) : queue[i].table # t

\* C6: once the worker has handled the DROP TABLE event of a table that had
\* records in the index, no record of the table is left and a search of the
\* tenant does not return the table, for as long as the table stays dropped.
C6_DroppedTableStaysOut ==
    (/\ w_last.command = "DROP TABLE"
     /\ w_last.kind = "table_drop"
     /\ w_last.had
     /\ catalog[w_last.table] = 0
     /\ NoPendingEvent(w_last.table)) =>
        /\ TableRows(rows, Schema, w_last.table) = {}
        /\ w_last.table \notin SearchTables(rows, DbName)

\* the worker finishes the handling of an ALTER TABLE event whose table its
\* catalog read has found and which has records in the index
AlterHandled ==
    /\ w_pc = "apply"
    /\ w_pc' = "idle"
    /\ w_event.command = "ALTER TABLE"
    /\ w_meta > 0
    /\ table_exists
    /\ TableRows(rows, w_event.schema, w_event.table) # {}

\* C7: an ALTER TABLE event replaces the record set of its table: when the
\* worker has handled it, the records the table had before are gone and new
\* ones are present, and no step leaves the table with a part of either.
C7_AlterReplacesAtomically ==
    [][ AlterHandled =>
          LET old == TableRows(rows, w_event.schema, w_event.table)
              new == TableRows(rows', w_event.schema, w_event.table)
          IN  /\ new # {}
              /\ \A r \in new : r.text.cols = w_meta
              /\ (\E r \in old : r.text.cols # w_meta) => new \cap old = {} ]_vars

\* a forced build of caller p has deleted the tenant's rows and has not yet
\* inserted its last row
Rebuilding(p) == b_force[p] /\ b_pc[p] \in {"metadata", "insert"}

\* the tables of the index the forced build of caller p will have stored
PostTables(p) == {b_meta[p][i].table : i \in 1..Len(b_meta[p])}

\* C8: a similarity_search that runs while a rebuild is in progress observes
\* the complete index from before the rebuild or the complete rebuilt one.
C8_SearchSeesCompleteIndex ==
    [][ (hits' # hits /\ \E p \in Builders : Rebuilding(p)) =>
          /\ hits'.status = "ok"
          /\ \A p \in Builders : Rebuilding(p) =>
                \/ hits'.tables = TablesOf(b_pre[p])
                \/ b_pc[p] = "insert" /\ hits'.tables = PostTables(p) ]_vars

\* caller p is past its count check and has not finished its last insert
InBuild(p) == b_pc[p] \in {"delete", "metadata", "insert"}

\* C9: the builds of two callers on the same tenant never overlap.
C9_WritersSerialized ==
    \A p, q \in Builders : (p # q /\ InBuild(p)) => ~InBuild(q)

----------------------------------------------------------------------------
(* Properties of the worker process *)

\* the listener connections that add_database_listener requests have opened
\* for database d
AddedHandles(d) == {l \in Requests : l_db[l] = d}

\* the consumer tasks these requests have created for database d
AddedTasks(d) == {l \in Requests : l_db[l] = d /\ h_pc[l] # "off"}

\* C11: add_database_listener requests never leave a database with more than
\* one live listener handle or more than one notification-processing task.
C11_OneListenerPerTenant ==
    \A d \in Databases :
        /\ Cardinality(AddedHandles(d)) <= 1
        /\ Cardinality(AddedTasks(d)) <= 1

\* listener l is inside handle_notification
Handling(l) == h_pc[l] = "handles"

\* C12: handle_notification never runs for two notifications of the same
\* database at the same time.
C12_SingleConsumer ==
    \A i, j \in Listeners :
        (i # j /\ l_db[i] = l_db[j] /\ Handling(i)) => ~Handling(j)

\* notification a of listener i's queue is waiting or being handled
Unfinished(i, a) ==
    \/ h_event[i] = a
    \/ \E n \in 1..Len(lq[i]) : lq[i][n] = a

\* C13: the handling of a notification never begins while an earlier
\* notification of the same database is still waiting or being handled.
C13_ArrivalOrder ==
    \A i, j \in Listeners :
        (l_db[i] = l_db[j] /\ Handling(j)) =>
            \A a \in 1..MaxEvents : a < h_event[j] => ~Unfinished(i, a)

\* C15: at most one (engine, connection) pair is ever created for a database
\* and every get_handles caller receives that pair.
C15_OnePairPerTenant ==
    /\ \A d \in Databases : Cardinality(pairs[d]) <= 1
    /\ \A c1, c2 \in Callers :
          (g_db[c1] = g_db[c2] /\ g_pair[c1] # NoPair /\ g_pair[c2] # NoPair)
              => g_pair[c1] = g_pair[c2]

\* request r is answered as a request for a database that is already in
\* database_listeners
DuplicateAdd(r) ==
    /\ a_pc[r] = "idle"
    /\ a_pc'[r] = "done"
    /\ database_listeners[a_db'[r]] # NoListener

\* C16: a second add_database_listener for a monitored database opens no
\* connection, starts no task, leaves database_listeners unchanged, answers
\* with status info and carries the current set of active listeners.
C16_DuplicateAddReportsListeners ==
    [][ \A r \in Requests : DuplicateAdd(r) =>
          /\ UNCHANGED <<database_listeners, l_db, h_pc>>
          /\ a_out'[r].status = "info"
          /\ a_out'[r].listeners = ActiveListeners(database_listeners) ]_vars

\* the worker's queue holds a payload and the last notification failed
NextAfterFailure == w_last.kind = "error" /\ queue # <<>> /\ w_pc # "metadata" /\ w_pc # "apply"

\* C14: a notification whose handling fails leaves the consumer loop
\* running: the loop is ready for the next payload, which it takes, and an
\* undecodable payload leaves schema_embeddings as it was.
C14_BadEventNeverKillsLoop ==
    /\ [](w_pc # "stopped")
    /\ [](NextAfterFailure => ENABLED W_Dequeue)
    /\ [][ (w_last' # w_last /\ w_last'.kind = "error") =>
             /\ w_pc' = "idle"
             /\ (w_pc = "idle" => rows' = rows /\ table_exists' = table_exists) ]_vars

\* an undecodable payload was dropped and the next notification, a DDL
\* event, is being handled
C14_Witness ==
    /\ w_last.kind = "error"
    /\ w_last.command = "<not json>"
    /\ w_pc = "apply"
    /\ w_event.command = "ALTER TABLE"

----------------------------------------------------------------------------
(* Properties of similarity_search and rebuild *)

\* position of table t in the order in which one _build_embeddings call
\* inserts its rows (the order of by_table)
InsertionIndex(t) == CHOOSE i \in 1..Len(TableOrder) : TableOrder[i] = t

\* C17: the list similarity_search returned holds no table twice, has the
\* highest score first, and has records of equal score in insertion order.
C17_RankedByScoreThenInsertion ==
    Len(found) <= MaxK /\ \A i, j \in 1..Len(found) :
        i < j =>
            /\ found[i].table # found[j].table
            /\ (found[i].score # None /\ found[j].score # None) =>
                  /\ found[i].score >= found[j].score
                  /\ found[i].score = found[j].score =>
                        InsertionIndex(found[i].table) < InsertionIndex(found[j].table)

\* C18: every score similarity_search returned is None or lies in [0,1].
C18_ScoreInUnitInterval ==
    \A i \in 1..Len(found) :
        found[i].score = None \/ (0 <= found[i].score /\ found[i].score <= 10)

\* C19: a similarity_search call whose SELECT fails forces a rebuild of the
\* tenant index before it ends: its first failure is not what the caller gets.
C19_SearchSelfHeals ==
    [][ (hits' # hits /\ hits'.status = "error") =>
            (b_calls' = b_calls + 1 /\ table_exists') ]_vars

\* rebuild() of caller p ends in this step
RebuildEnds(p) ==
    /\ b_force[p]
    /\ b_pc[p] \in {"metadata", "insert"}
    /\ b_pc'[p] = "idle"

\* the catalog output the rebuild of caller p has read
RebuildCatalog(p) == IF b_pc[p] = "metadata" THEN ByTable(catalog, 1) ELSE b_meta[p]

\* C20: when rebuild() ends with no other writer at work, the tenant's
\* records are exactly one per table of the catalog output it has read.
C20_RebuildMatchesCatalog ==
    [][ \A p \in Builders : RebuildEnds(p) =>
          /\ b_out' = "built"
          /\ TenantRows(rows', DbName) =
                {BuildRow(p, RebuildCatalog(p)[i]) : i \in 1..Len(RebuildCatalog(p))}
          /\ \A r1, r2 \in TenantRows(rows', DbName) : SameKey(r1, r2) => r1 = r2 ]_vars

\* a rebuild ended after a table was dropped from the database whose record
\* the index held
C20_Witness ==
    /\ b_out = "built"
    /\ b_calls = 2
    /\ b_pc[1] = "idle"
    /\ hits.tables = {"t1"}
    /\ catalog["t1"] = 0
    /\ TenantRows(rows, DbName) = {}

----------------------------------------------------------------------------
(* Properties of ensure_store and of the tenants of schema_embeddings *)

\* caller p, not forced, is at the count check and its tenant has records
Loads(p) ==
    /\ b_pc[p] = "count"
    /\ ~b_force[p]
    /\ TenantRows(rows, db_name(p)) # {}

\* C21: ensure_store(force=false) on a tenant whose index exists and loads
\* leaves every record of the relation unchanged and reads no catalog and
\* inserts nothing: its table check outside the migration branches and its
\* count check change no record, and the count check ends the call; a call
\* goes on to build only when force is set or the tenant has no record.
C21_LoadLeavesStoreUnchanged ==
    [][ \A p \in Embedders :
          /\ B_EnsureTable(p, FALSE) => rows' = rows
          /\ (Loads(p) /\ b_pc'[p] # b_pc[p]) =>
                /\ rows' = rows
                /\ b_pc'[p] = "idle"
                /\ b_out' = "loaded"
                /\ b_meta' = b_meta
                /\ catalog' = catalog
          /\ (b_pc[p] = "count" /\ b_pc'[p] \in {"delete", "metadata"}) =>
                (b_force[p] \/ TenantRows(rows, db_name(p)) = {}) ]_vars

\* a call has loaded the index a former call built
C21_Witness ==
    /\ b_out = "loaded"
    /\ b_calls >= 2
    /\ TenantRows(rows, DbName) # {}
    /\ \A p \in Embedders : b_pc[p] = "idle"

----------------------------------------------------------------------------
(* Properties of the SSE broadcaster *)

\* the subscribers on the list of process P
Active(P) == Range(sse_event_queues[P])

\* a bound on the events pending in one subscriber queue that the broadcasts
\* allowed here can exceed
QueueBound == MaxBroadcasts - 1

C27_QueueBounded ==
    \A c \in Clients : Len(client_queue[c]) <= QueueBound

\* the change events a stream has yielded, in order
Events(out) == SelectSeq(out, LAMBDA e : e.type = "event")

\* the change events of subscriber c: those yielded, then those queued
Received(c) == Events(s_out[c]) \o client_queue[c]

IsPrefix(a, b) == Len(a) <= Len(b) /\ \A i \in 1..Len(a) : a[i] = b[i]

Idle(c) == s_pc[c] = "streaming" /\ client_queue[c] = <<>>

\* C25: a stream whose queue is empty can emit a heartbeat; a step that
\* yields a heartbeat is taken with an empty queue and leaves the stream
\* running and subscribed; and no step removes, duplicates or reorders a
\* change event of a subscriber: the events yielded and queued only grow at
\* the end, in the order of the broadcasts.
C25_HeartbeatKeepsEvents ==
    /\ [](\A c \in Clients :
            (Idle(c) /\ Beats(s_out[c]) < MaxBeats) => ENABLED S_Step(c))
    /\ [](\A c \in Clients : \A i, j \in 1..Len(Received(c)) :
            i < j => Received(c)[i].n < Received(c)[j].n)
    /\ [][ \A c \in Clients :
            /\ IsPrefix(Received(c), Received(c)')
            /\ Beats(s_out'[c]) > Beats(s_out[c]) =>
                  /\ client_queue[c] = <<>>
                  /\ client_queue'[c] = <<>>
                  /\ s_pc'[c] = "streaming"
                  /\ c \in Active(s_proc[c])' ]_vars

\* a stream has yielded an event, then a heartbeat, and has an event queued
C25_Witness ==
    \E c \in Clients :
        /\ Events(s_out[c]) # <<>>
        /\ s_out[c][Len(s_out[c])] = Heartbeat
        /\ client_queue[c] # <<>>

\* C24: every event the CDC worker broadcasts while it handles a
\* notification reaches every /schema_events subscriber registered before
\* the broadcast and still connected: the broadcast, which does not wait,
\* leaves the event in the queue of each of them.
C24_WorkerEventsReachSubscribers ==
    [][ (w_sent' # w_sent /\ w_sent' # <<>>) =>
          \A c \in Clients :
              s_pc[c] = "streaming" =>
                  w_sent'[Len(w_sent')] \in Range(client_queue'[c]) ]_vars

----------------------------------------------------------------------------
(* Properties of POST /refresh_embeddings *)

\* the catalog tables that match every filter of the request
Matches(schema, table) ==
    {x \in Tables : /\ catalog[x] > 0
                    /\ schema \in {"", Schema}
                    /\ table \in {"", x}}

\* the rows a refresh of table x leaves: one per column of the catalog
Refreshed(tbl, x) ==
    /\ TableRows(tbl, Schema, x) # {}
    /\ \A r \in TableRows(tbl, Schema, x) :
          r.by = Worker /\ r.text.cols = catalog[x]

\* C26: POST /refresh_embeddings on an existing store refreshes exactly the
\* catalog tables that match every filter of the request: it answers
\* success with tables_processed the number of matching tables and
\* total_vectors the number of their columns, the matching tables have
\* their fresh rows and the rows of every other table are as before; when
\* no table matches it answers error and changes no row.
C26_RefreshesExactlyMatching ==
    [][ (m_out' # m_out /\ table_exists) =>
          LET match == Matches(m_out'.schema, m_out'.table)
              todo == SelectSeq(ByTable(catalog, 1), LAMBDA e : e.table \in match)
          IN  IF match = {}
              THEN m_out'.status = "error" /\ rows' = rows
              ELSE /\ m_out'.status = "success"
                   /\ m_out'.tables_processed = Cardinality(match)
                   /\ m_out'.total_vectors = TotalVectors(todo, 1)
                   /\ \A x \in match : Refreshed(rows', x)
                   /\ \A x \in Tables \ match :
                         TableRows(rows', Schema, x) = TableRows(rows, Schema, x) ]_vars

----------------------------------------------------------------------------
(* Properties of a failing build *)

\* the forced call of p ends in an exception after it has started to build
RebuildFails(p) ==
    /\ b_force[p]
    /\ b_pc[p] \in {"metadata", "insert"}
    /\ b_pc'[p] = "idle"
    /\ b_out' = "error"

\* C28: a build publishes only on success: when ensure_store(force=true) /
\* rebuild() fails after it has started (catalog read, embedding or insert),
\* the index the tenant had before the call is still there, complete: the
\* tenant's records are those the call found.
C28_FailedRebuildKeepsIndex ==
    [][ \A p \in Builders :
          (RebuildFails(p) /\ b_pre[p] # {}) =>
              TenantRows(rows', db_name(p)) = b_pre[p] ]_vars

----------------------------------------------------------------------------
(* Properties of the events of handle_notification *)

\* handle_notification returns for the payload dequeued last
HandlingEnds ==
    /\ w_last' # w_last
    /\ w_pc' \in {"idle", AfterException}

\* C29: for every notification the loop dequeues, handle_notification has
\* broadcast an event when it returns, whether it succeeded or failed: the
\* refresh or drop notice on success, and still some event when decoding,
\* the connection cache, the catalog read or the embedding write fails.
C29_EventForEveryNotification ==
    [][ HandlingEnds =>
          /\ w_sent' # <<>>
          /\ w_last'.kind # "error" =>
                w_sent'[Len(w_sent')].type = w_last'.kind ]_vars

----------------------------------------------------------------------------
(* Properties of the shutdown of the worker *)

\* C30: shutdown waits for the handling in flight and only then disposes
\* the cached connections: no pair of a database is closed while a
\* handle_notification of that database holds it, also in the loops that
\* add_database_listener started as background tasks.
C30_NoCloseWhileHandling ==
    \A l \in Listeners :
        (Handling(l) /\ g_pc[l] = "got") => <<l_db[l], g_pair[l]>> \notin closed

----------------------------------------------------------------------------
(* Properties of the tenant loops at shutdown *)

Stopped(l) == h_pc[l] \in {"off", "stopped"}

\* C31: once shutdown_event is set every tenant loop comes to its end; a
\* loop that finishes a handling with the flag set ends there, also with
\* notifications waiting; and a loop that has ended stays ended and
\* dequeues nothing.
C31_LoopsStop ==
    /\ shutdown_event ~> (\A l \in Listeners : Stopped(l))
    /\ [][ \A l \in Listeners :
            /\ (shutdown_event /\ h_pc[l] = "handles" /\ h_pc'[l] # "handles") =>
                  h_pc'[l] = "stopped"
            /\ h_pc[l] = "stopped" =>
                  /\ h_pc'[l] = "stopped"
                  /\ h_event'[l] = h_event[l]
                  /\ IsPrefix(lq[l], lq'[l]) ]_vars

\* a loop has ended after a handling, with a notification still waiting
C31_Witness ==
    \E l \in Listeners :
        /\ shutdown_event
        /\ h_pc[l] = "stopped"
        /\ lq[l] # <<>>
        /\ \A k \in Listeners : Stopped(k)

\* the listener connections add_database_listener has opened
ListenerConnections == {r \in Requests : l_db[r] # ""}

\* C32: when the shutdown of main has completed, the connection cache is
\* empty, every pair get_handles has created is closed and disposed, and no
\* listener connection opened by add_database_listener is open.
C32_AllHandlesTornDown ==
    [][ (main_pc = "running" /\ main_pc' = "exited") =>
          /\ \A d \in Databases : connection_cache'[d] = NoPair
          /\ \A d \in Databases : \A c \in pairs'[d] : <<d, c>> \in closed'
          /\ ListenerConnections' = {} ]_vars

\* C33: a worker that starts without a base connection target stops: once
\* schema_listener has failed at its start, the control surface accepts no
\* request.
C33_StartupErrorIsFatal ==
    [][ h_pc[BaseListener] = "failed" => a_pc' = a_pc ]_vars

----------------------------------------------------------------------------
(* Properties of the subscriber list under threads *)

Ended(c) == s_pc[c] \in {"closed", "gone"}

\* C34: under every interleaving of add_sse_client, remove_sse_client and
\* broadcast_to_sse_clients the list holds each handle at most once; a
\* remove_sse_client with a handle that is not in the list changes nothing;
\* and after remove_sse_client has returned for a handle no broadcast puts
\* an event into it, also not a broadcast that was called before.
C34_SubscriberSetTolerant ==
    /\ [](\A P \in Processes : \A i, j \in 1..Len(sse_event_queues[P]) :
            sse_event_queues[P][i] = sse_event_queues[P][j] => i = j)
    /\ [][ \A c \in Clients :
            /\ (s_pc[c] = "closed" /\ s_pc'[c] = "gone"
                   /\ c \notin Active(s_proc[c]))
                  => (sse_event_queues' = sse_event_queues
                         /\ client_queue' = client_queue)
            /\ Ended(c) =>
                  (client_queue'[c] = client_queue[c]
                      /\ c \notin Active(s_proc[c])') ]_vars

\* remove_sse_client was repeated for a subscriber that had received an
\* event, and a later broadcast reached the other subscriber only
C34_Witness ==
    \E c, d \in Clients :
        /\ s_pc[c] = "gone"
        /\ Received(c) # <<>>
        /\ \E i \in 1..Len(Received(d)) : Received(d)[i] \notin Range(Received(c))

\* position of the event e in the events of subscriber c
Position(c, e) == CHOOSE i \in 1..Len(Received(c)) : Received(c)[i] = e

Both(c, d) == Range(Received(c)) \cap Range(Received(d))

\* C37: the subscribers see the broadcasts in one order, the order in which
\* the broadcasts took the lock: a broadcast puts its event behind the
\* events every subscriber has, the same event for all of them, no step
\* reorders the events of a subscriber, and two events that two subscribers
\* both have are in the same order for both, also when threads broadcast
\* concurrently.
C37_OneBroadcastOrder ==
    /\ [](\A c, d \in Clients : \A e, f \in Both(c, d) :
            Position(c, e) < Position(c, f) => Position(d, e) < Position(d, f))
    /\ [][ \A c \in Clients :
            /\ IsPrefix(Received(c), Received(c)')
            /\ Len(Received(c)') <= Len(Received(c)) + 1
            /\ \A t \in Threads :
                  (t_event[t] # NoBroadcast /\ t_event'[t] = NoBroadcast
                      /\ c \in Active(FlaskProcess))
                    => Received(c)' = Append(Received(c), t_event[t]) ]_vars

\* two subscribers have the same two events, the one that was called later
\* first
C37_Witness ==
    \E c, d \in Clients :
        /\ c # d
        /\ Len(Received(c)) >= 2
        /\ Received(c) = Received(d)
        /\ Received(c)[1].n > Received(c)[2].n

----------------------------------------------------------------------------
(* Properties of the incremental repair *)

\* what an index record says of its table: tenant id, schema and table
Record(r) == <<r.db_name, r.schema, r.table>>

\* the worker finishes a CREATE TABLE or ALTER TABLE event of a table its
\* catalog read holds, on an existing store
RepairHandled ==
    /\ w_pc = "apply"
    /\ w_pc' # "apply"
    /\ w_event.command \in {"CREATE TABLE", "ALTER TABLE"}
    /\ w_meta > 0
    /\ table_exists

\* C35: when the worker has processed a CREATE TABLE or ALTER TABLE event
\* of a table of the catalog, the tenant's index holds for that table what
\* rebuild() would store for it: as many records, with the same tenant id,
\* schema and table.
C35_RepairAgreesWithRebuild ==
    [][ RepairHandled =>
          LET new == TableRows(TenantRows(rows', DbName),
                               w_event.schema, w_event.table)
              rebuilt == {BuildRow(1, [table |-> w_event.table, cols |-> w_meta])}
          IN  /\ Cardinality(new) = Cardinality(rebuilt)
              /\ {Record(r) : r \in new} = {Record(r) : r \in rebuilt} ]_vars

----------------------------------------------------------------------------
(* Properties of a tenant queue *)

\* the notifications of a run, by their number
Notifications == 1..MaxEvents

\* C36: while shutdown is not requested every notification on the queue of
\* a tenant loop is dequeued and its handling comes to its end; the loop
\* handles the notifications of its queue one at a time from the head, each
\* leaves the queue when its handling begins and does not come back, so none
\* is skipped and none is handled twice; and a loop that has observed the
\* shutdown flag leaves the notifications of its queue where they are.
C36_QueuedHandledOnce ==
    /\ \A l \in Loops : \A n \in Notifications :
          /\ (n \in Range(lq[l])) ~> (h_event[l] = n \/ shutdown_event)
          /\ (h_event[l] = n) ~> (h_event[l] # n)
    /\ [](\A l \in Listeners : \A i, j \in 1..Len(lq[l]) :
            /\ lq[l][i] > h_event[l]
            /\ i < j => lq[l][i] < lq[l][j])
    /\ [][ \A l \in Listeners :
            /\ h_event'[l] \notin {h_event[l], 0} =>
                  /\ h_event[l] = 0
                  /\ lq[l] # <<>>
                  /\ h_event'[l] = Head(lq[l])
                  /\ lq'[l] = Tail(lq[l])
            /\ h_event'[l] \in {h_event[l], 0} => IsPrefix(lq[l], lq'[l])
            /\ h_pc[l] = "stopped" => (h_event'[l] = 0 /\ h_pc'[l] = "stopped") ]_vars

\* without a shutdown request a loop handles a notification while the next
\* one waits on its queue
C36_Witness ==
    \E l \in Loops :
        /\ ~shutdown_event
        /\ h_event[l] # 0
        /\ lq[l] # <<>>

----------------------------------------------------------------------------
(* Properties of the end of a /schema_events request *)

\* C38: when the stream of a /schema_events request has ended, on whatever
\* path, its queue is no longer in the list of subscribers: the list keeps
\* no queue that no stream reads.
C38_EndedStreamRemoved ==
    \A c \in Clients : Ended(c) => c \notin Active(s_proc[c])

----------------------------------------------------------------------------
(* Properties of the progress stream *)

IsTerminal(u) == u.step \in Terminal

\* the sequence ends with its only terminal update
EndsWithTerminal(q) ==
    /\ q # <<>>
    /\ \A i \in 1..Len(q) : IsTerminal(q[i]) <=> i = Len(q)

\* C39: get_updates yields exactly the updates the background thread put,
\* each once and in order, ending with the single terminal update.
C39_YieldsExactlyPuts ==
    /\ IsPrefix(u_out, x_puts)
    /\ u_pc = "done" => (u_out = x_puts /\ EndsWithTerminal(u_out))

\* C39, amended: next to the heartbeats it makes itself, get_updates yields
\* exactly the updates the background thread put, each once and in order:
\* what the stream emits is at every moment the beginning of what was put,
\* with the rest on the queue; when get_updates has returned the stream has
\* emitted all of it, ending with the single terminal update; and
\* get_updates returns, under every interleaving of the put and the
\* assignment of is_complete with the loop test and the queue read.
C39_StreamEmitsPuts ==
    /\ [](Emitted(u_out) \o progress_queue = x_puts)
    /\ [](u_pc = "done" =>
            /\ x_pc = "done"
            /\ Emitted(u_out) = x_puts
            /\ EndsWithTerminal(Emitted(u_out)))
    /\ <>(u_pc = "done")

\* get_updates has returned after it read the terminal update in its first
\* loop, before is_complete was assigned, and yielded a heartbeat
C39_Witness ==
    /\ u_pc = "done"
    /\ Len(x_puts) > 1
    /\ Pings(u_out) > 0
    /\ u_out[Len(u_out)] = Ping

====
